---- MODULE Spec2Model ----
(***************************************************************************)
(* A model of dumpdisc: the RAW CD sector codec (cdrom.py), the image      *)
(* stack (image.py) and the disc orchestrator with its two filesystem      *)
(* probes (__init__.py, iso9660.py, apple.py).                             *)
(*                                                                         *)
(* Python values are modelled with their types where the type decides the  *)
(* outcome of an expression (bytes + int raises TypeError).  A call that   *)
(* raises is modelled by a result record of kind "error" that carries the  *)
(* exception and the sector or block number its message names.             *)
(***************************************************************************)
EXTENDS Integers, Sequences, FiniteSets, TLC

(***************************************************************************)
(* Bounds.  A real sector has 24 rows of 86 bytes under P parity; the      *)
(* model keeps the 86 columns and every other constant of the layout and   *)
(* scales only the number of rows, so that the data area of a sector is    *)
(* 86 * PRows - 16 bytes (2048 when PRows = 24).                           *)
(***************************************************************************)
PRows == 1
MaxSectors == 3
MaxCount == 2

(***************************************************************************)
(* Optional values (address=None) and results of calls.                    *)
(***************************************************************************)
NoAddr == <<>>
Addr(a) == <<a>>
IsNone(x) == x = <<>>
Val(x) == x[1]

Ok(v) == [kind |-> "ok", data |-> v, err |-> "", arg |-> 0]
Raise(e, n) == [kind |-> "error", data |-> <<>>, err |-> e, arg |-> n]
IsOk(r) == r.kind = "ok"

Zeros(n) == [i \in 1..n |-> 0]
Slice(s, from, to) == SubSeq(s, from + 1, to)

RECURSIVE XorN(_, _, _)
XorN(a, b, n) ==
    IF n = 0 THEN 0
    ELSE ((a + b) % 2) + 2 * XorN(a \div 2, b \div 2, n - 1)

(***************************************************************************)
(* Python's bytes + x: concatenation of two bytes objects, TypeError when  *)
(* the right operand is an int.                                            *)
(***************************************************************************)
PyBytes(s) == [t |-> "bytes", v |-> s]
PyInt(n) == [t |-> "int", v |-> <<n>>]
PyTypeError == [t |-> "TypeError", v |-> <<>>]
PyAdd(a, b) ==
    IF a.t = "bytes" /\ b.t = "bytes" THEN PyBytes(a.v \o b.v)
    ELSE PyTypeError

(***************************************************************************)
(* cdrom.EDC: a 32-bit value is the pair <<high 16 bits, low 16 bits>>.    *)
(***************************************************************************)
Xor32(a, b) == <<XorN(a[1], b[1], 16), XorN(a[2], b[2], 16)>>
Shr1(w) == <<w[1] \div 2, (w[2] \div 2) + (w[1] % 2) * 32768>>
Shr8(w) == <<w[1] \div 256, (w[2] \div 256) + (w[1] % 256) * 256>>

RECURSIVE EDC_entry(_, _)
EDC_entry(edc, j) ==
    IF j = 0 THEN edc
    ELSE EDC_entry(IF edc[2] % 2 = 1 THEN Xor32(Shr1(edc), <<55297, 32769>>)
                                     ELSE Shr1(edc), j - 1)

EDC_table == [i \in 0..255 |-> EDC_entry(<<0, i>>, 8)]

\* one step of the loop of compute()
EDC_step(edc, b) == Xor32(Shr8(edc), EDC_table[XorN(edc[2] % 256, b, 8)])

\* the loop of compute() over data[from..to], split in halves
RECURSIVE EDC_fold(_, _, _, _)
EDC_fold(data, from, to, edc) ==
    IF from > to THEN edc
    ELSE IF from = to THEN EDC_step(edc, data[from])
    ELSE LET mid == (from + to) \div 2
             \* the test evaluates the left half before the right half starts
             rest(left) == IF left[1] >= 0 THEN EDC_fold(data, mid + 1, to, left) ELSE left
         IN  rest(EDC_fold(data, from, mid, edc))

EDC_compute(data) == EDC_fold(data, 1, Len(data), <<0, 0>>)

\* struct.unpack("I") / struct.pack("<I"): four little-endian bytes
UnpackI(b) == <<b[3] + 256 * b[4], b[1] + 256 * b[2]>>
PackI(w) == <<w[2] % 256, w[2] \div 256, w[1] % 256, w[1] \div 256>>

(***************************************************************************)
(* cdrom.ECC                                                               *)
(***************************************************************************)
ECC_f_table == [i \in 0..255 |-> XorN(2 * i, IF i >= 128 THEN 285 ELSE 0, 9)]
ECC_b_table ==
    [k \in 0..255 |-> CHOOSE i \in 0..255 : XorN(i, ECC_f_table[i], 8) = k]

\* the inner loop over minor; <<-1, -1>> is the IndexError of data[index]
RECURSIVE ECC_minor(_, _, _, _, _, _, _)
ECC_minor(data, index, size, minor_inc, left, ecc_a, ecc_b) ==
    IF left = 0 THEN <<ecc_a, ecc_b>>
    ELSE IF index >= Len(data) THEN <<-1, -1>>
    ELSE LET temp == data[index + 1]
             next == IF index + minor_inc >= size
                     THEN index + minor_inc - size ELSE index + minor_inc
             a == ECC_f_table[XorN(ecc_a, temp, 8)]
             b == XorN(ecc_b, temp, 8)
         IN  \* the test evaluates a and b before the recursive call
             IF a >= 0 /\ b >= 0
             THEN ECC_minor(data, next, size, minor_inc, left - 1, a, b)
             ELSE <<-1, -1>>

ECC_major(data, major, major_count, minor_count, major_mult, minor_inc) ==
    LET pair(a, ab) == <<a, XorN(a, ab[2], 8)>>
        after(ab) == IF ab[1] < 0 THEN <<-1, -1>>
                     ELSE pair(ECC_b_table[XorN(ECC_f_table[ab[1]], ab[2], 8)], ab)
    IN  after(ECC_minor(data, (major \div 2) * major_mult + (major % 2),
                        major_count * minor_count, minor_inc, minor_count, 0, 0))

ECC_compute_pq(data, major_count, minor_count, major_mult, minor_inc) ==
    LET result(col) ==
            IF \E m \in 0..(major_count - 1) : col[m][1] < 0
            THEN Raise("IndexError", 0)
            ELSE Ok([i \in 1..(2 * major_count) |->
                       IF i <= major_count THEN col[i - 1][1]
                       ELSE col[i - 1 - major_count][2]])
    IN  result([m \in 0..(major_count - 1) |->
                  ECC_major(data, m, major_count, minor_count, major_mult, minor_inc)])

\* compute(): P parity over PRows rows of 86 bytes, Q parity over the rows
\* and the two rows of P parity
ECC_compute(data) ==
    LET both(p_parity, q_parity) ==
            IF ~IsOk(q_parity) THEN q_parity ELSE Ok(p_parity.data \o q_parity.data)
        q(p_parity) ==
            IF ~IsOk(p_parity) THEN p_parity
            ELSE both(p_parity, ECC_compute_pq(data \o p_parity.data,
                                               2 * (PRows + 2), 43, 86, 88))
    IN  q(ECC_compute_pq(data, 86, PRows, 2, 86))

(***************************************************************************)
(* Layout of a RAW sector (image.py, RawCDImage): sync(12) offset(3)       *)
(* mode(1) payload.  Mode 1 payload: data, edc(4), reserved(8), ecc.       *)
(* Mode 2 payload: subheader(8), then data, edc(4), ecc (Form 1) or a      *)
(* longer data area and edc(4) (Form 2).                                   *)
(***************************************************************************)
ECC_SIZE == 2 * (86 + 2 * (PRows + 2))
DATA_SECTOR_SIZE == 86 * PRows - 16
FORM2_DATA_SIZE == DATA_SECTOR_SIZE + ECC_SIZE
RAW_SECTOR_SIZE == 12 + 3 + 1 + DATA_SECTOR_SIZE + 4 + 8 + ECC_SIZE

SYNC == <<0, 255, 255, 255, 255, 255, 255, 255, 255, 255, 255, 0>>

\* the pure part of _read_sector: the decoding of the 2352 bytes that
\* _read_raw_sector returned; n is self._current_sector - 1
DecodeSector(sector, strict_size, n) ==
    LET sync == Slice(sector, 0, 12)
        offset == Slice(sector, 12, 15)
        mode == sector[16]
        data == Slice(sector, 16, RAW_SECTOR_SIZE)
    IN
    IF sync # SYNC THEN Raise("IOError: sync for sector invalid", -1)
    ELSE IF mode = 0 THEN Ok(Zeros(DATA_SECTOR_SIZE))
    ELSE IF mode = 1 THEN
        LET d == Slice(data, 0, DATA_SECTOR_SIZE)
            edc == UnpackI(Slice(data, DATA_SECTOR_SIZE, DATA_SECTOR_SIZE + 4))
            ecc == Slice(data, DATA_SECTOR_SIZE + 12, DATA_SECTOR_SIZE + 12 + ECC_SIZE)
            edc_arg == PyAdd(PyAdd(PyAdd(PyBytes(sync), PyBytes(offset)), PyInt(mode)), PyBytes(d))
            ecc_arg == PyAdd(PyAdd(PyAdd(PyBytes(offset), PyInt(mode)), PyBytes(d)), PyBytes(PackI(edc)))
            check(c) == IF ~IsOk(c) THEN Raise(c.err, -1)
                        ELSE IF ecc # c.data THEN Raise("IOError: ecc invalid", n)
                        ELSE Ok(d)
        IN  IF edc_arg.t = "TypeError" THEN Raise("TypeError", -1)
            ELSE IF edc # EDC_compute(edc_arg.v) THEN Raise("IOError: edc invalid", n)
            ELSE IF ecc_arg.t = "TypeError" THEN Raise("TypeError", -1)
            ELSE check(ECC_compute(ecc_arg.v))
    ELSE IF mode = 2 THEN
        LET subheader == Slice(data, 0, 8)
            rest == Slice(data, 8, Len(data))
        IN
        IF subheader[3] # subheader[7] THEN Raise("IOError: submode flags do not match", n)
        ELSE IF (subheader[3] \div 32) % 2 = 0 THEN
            LET d == Slice(rest, 0, DATA_SECTOR_SIZE)
                edc == UnpackI(Slice(rest, DATA_SECTOR_SIZE, DATA_SECTOR_SIZE + 4))
                ecc == Slice(rest, DATA_SECTOR_SIZE + 4, DATA_SECTOR_SIZE + 4 + ECC_SIZE)
                check(c) ==
                    IF ~IsOk(c) THEN Raise(c.err, -1)
                    ELSE IF ecc # c.data THEN Raise("IOError: ecc invalid", n)
                    ELSE IF edc # EDC_compute(subheader \o d)
                         THEN Raise("IOError: edc invalid", n)
                    ELSE Ok(d)
            IN  check(ECC_compute(Zeros(4) \o subheader \o d \o PackI(edc)))
        ELSE
            LET d == Slice(rest, 0, FORM2_DATA_SIZE)
                edc == UnpackI(Slice(rest, FORM2_DATA_SIZE, FORM2_DATA_SIZE + 4))
            IN  IF edc # EDC_compute(subheader \o d) THEN Raise("IOError: edc invalid", n)
                ELSE IF strict_size /\ Len(d) # DATA_SECTOR_SIZE
                     THEN Raise("IOError: mode 2 form 1 sector found", -1)
                ELSE Ok(d)
    ELSE Raise("IOError: invalid mode", n)

(***************************************************************************)
(* The sectors an image file is made of.  A well-formed sector stores the  *)
(* EDC and the P/Q parity the CD-ROM format prescribes: for Mode 1 the EDC *)
(* of sync||offset||mode||data and the parity of offset||mode||data||edc   *)
(* and the eight reserved bytes.                                           *)
(***************************************************************************)
Pattern(k, n) == [i \in 1..n |-> (k * 16 + i) % 256]
MSF(k) == <<0, 2, k>>

Mode1Sector(k, data) ==
    LET protect(edc) ==
            SYNC \o MSF(k) \o <<1>> \o data \o edc \o Zeros(8)
                \o ECC_compute(MSF(k) \o <<1>> \o data \o edc \o Zeros(8)).data
    IN  protect(PackI(EDC_compute(SYNC \o MSF(k) \o <<1>> \o data)))

Mode2Form1Sector(k, data) ==
    LET subheader == <<0, 0, 8, 0, 0, 0, 8, 0>>
        protect(edc) ==
            SYNC \o MSF(k) \o <<2>> \o subheader \o data \o edc
                \o ECC_compute(Zeros(4) \o subheader \o data \o edc).data
    IN  protect(PackI(EDC_compute(subheader \o data)))

Mode2Form2Sector(k, data) ==
    LET subheader == <<0, 0, 32, 0, 0, 0, 32, 0>>
    IN  SYNC \o MSF(k) \o <<2>> \o subheader \o data \o PackI(EDC_compute(subheader \o data))

Mode0Sector(k) == SYNC \o MSF(k) \o <<0>> \o Zeros(RAW_SECTOR_SIZE - 16)

\* one bit of byte p (0-based) flipped
FlipBit(sector, p) == [sector EXCEPT ![p + 1] = XorN(@, 1, 8)]

SectorPalette ==
    << Mode1Sector(1, Pattern(1, DATA_SECTOR_SIZE)),
       FlipBit(Mode1Sector(2, Pattern(2, DATA_SECTOR_SIZE)), 16),
       Mode0Sector(3),
       Mode2Form1Sector(4, Pattern(4, DATA_SECTOR_SIZE)),
       Mode2Form2Sector(5, Pattern(5, FORM2_DATA_SIZE)),
       FlipBit(Mode0Sector(6), 0) >>

\* the bytes of a cooked 2048-byte block
BlockPalette == [k \in 1..Len(SectorPalette) |-> Pattern(k, DATA_SECTOR_SIZE)]

\* _read_sector on the bytes of a sector of the palette, decoded once;
\* the sector number of the message is filled in by the caller
Decoded ==
    [k \in 1..Len(SectorPalette) |->
        [strict_size \in BOOLEAN |-> DecodeSector(SectorPalette[k], strict_size, 0)]]

(***************************************************************************)
(* State of an image stack.                                                *)
(***************************************************************************)
VARIABLES
    base,            \* the class of the base image: "iso" or "raw"
    f,               \* the file: whole sectors (or blocks) and a partial tail
    fpos,            \* self._f.tell(), in bytes
    current_sector,  \* RawCDImage._current_sector
    stack,           \* the overlays above the base image, innermost first
    last             \* the last call on the outermost image and its result

imgvars == <<base, f, fpos, current_sector, stack, last>>

VARIABLES
    image,       \* [kind, vds, apple]: the image handed to Disc
    pc,          \* the probe Disc.__init__ is about to run, "done" after the
                 \* last, "hung" when a probe does not return
    partitions,  \* Disc._partitions
    probes       \* the outcome of each probe that has run, in order

VARIABLES
    subject,     \* the object a file-system operation is applied to
    outcome      \* the last file-system operation and what it returned

Min(a, b) == IF a < b THEN a ELSE b

UnitSize == IF base = "raw" THEN RAW_SECTOR_SIZE ELSE DATA_SECTOR_SIZE
FileLen == Len(f.sectors) * UnitSize + f.tail
Unit(k) == IF base = "raw" THEN SectorPalette[f.sectors[k + 1]]
           ELSE BlockPalette[f.sectors[k + 1]]
ByteAt(p) == IF p \div UnitSize < Len(f.sectors) THEN Unit(p \div UnitSize)[(p % UnitSize) + 1]
             ELSE 0
\* self._f.read(n) at position pos: the bytes up to the end of the file
FileRead(pos, n) ==
    IF pos >= FileLen THEN <<>>
    ELSE IF pos % UnitSize = 0 /\ n = UnitSize /\ pos \div UnitSize < Len(f.sectors)
         THEN Unit(pos \div UnitSize)
    ELSE [i \in 1..(Min(pos + n, FileLen) - pos) |-> ByteAt(pos + i - 1)]

\* the outcome of a call: its result, the state of the base image after it
\* and the number of calls it made on the base image
Out(r, st, calls) == [res |-> r, st |-> st, calls |-> calls]

(***************************************************************************)
(* ISOImage                                                                *)
(***************************************************************************)
ISOImage_read_blocks(st, address, count) ==
    IF ~IsNone(address) /\ Val(address) < 0
    THEN Out(Raise("OSError: invalid seek", -1), st, 1)
    ELSE LET pos == IF IsNone(address) THEN st.pos ELSE Val(address) * DATA_SECTOR_SIZE
             read(data) == Out(Ok(data), [st EXCEPT !.pos = pos + Len(data)], 1)
         IN  read(FileRead(pos, count * DATA_SECTOR_SIZE))

ISOImage_current_block(st) == st.pos \div DATA_SECTOR_SIZE

(***************************************************************************)
(* RawCDImage                                                              *)
(***************************************************************************)
\* a _read_raw_sector that seeks without setting _current_sector
RawCDImage_read_raw_sector_seek_only(st, address) ==
    IF ~IsNone(address) /\ Val(address) < 0
    THEN Out(Raise("OSError: invalid seek", -1), st, 1)
    ELSE LET st1 == IF IsNone(address) THEN st
                    ELSE [pos |-> Val(address) * RAW_SECTOR_SIZE, cur |-> st.cur]
             read(data) ==
                 IF Len(data) # RAW_SECTOR_SIZE
                 THEN Out(Raise("IOError: can't read entire sector", -1),
                          [st1 EXCEPT !.pos = @ + Len(data)], 1)
                 ELSE Out(Ok(data), [pos |-> st1.pos + RAW_SECTOR_SIZE, cur |-> st1.cur + 1], 1)
         IN  read(FileRead(st1.pos, RAW_SECTOR_SIZE))

\* _read_raw_sector
RawCDImage_read_raw_sector(st, address) ==
    IF ~IsNone(address) /\ Val(address) < 0
    THEN Out(Raise("OSError: invalid seek", -1), [st EXCEPT !.cur = Val(address)], 1)
    ELSE LET st1 == IF IsNone(address) THEN st
                    ELSE [pos |-> Val(address) * RAW_SECTOR_SIZE, cur |-> Val(address)]
             read(data) ==
                 IF Len(data) # RAW_SECTOR_SIZE
                 THEN Out(Raise("IOError: can't read entire sector", -1),
                          [st1 EXCEPT !.pos = @ + Len(data)], 1)
                 ELSE Out(Ok(data), [pos |-> st1.pos + RAW_SECTOR_SIZE, cur |-> st1.cur + 1], 1)
         IN  read(FileRead(st1.pos, RAW_SECTOR_SIZE))

\* the decoding of _read_sector, looked up in Decoded: the sectors of a file
\* are sectors of the palette
Decode(sector, strict_size, n) ==
    LET named(r) == IF ~IsOk(r) /\ r.arg >= 0 THEN [r EXCEPT !.arg = n] ELSE r
    IN  named(Decoded[CHOOSE k \in 1..Len(SectorPalette) : SectorPalette[k] = sector]
                     [strict_size])

\* _read_sector
RawCDImage_read_sector(st, strict_size, address) ==
    LET decode(sector) ==
            IF ~IsOk(sector.res) THEN sector
            ELSE Out(Decode(sector.res.data, strict_size, sector.st.cur - 1), sector.st, 1)
    IN  decode(RawCDImage_read_raw_sector(st, address))

\* lambdas that all decode without strict_size
RawCDImage_lambda_lenient(op, st, address) ==
    IF op = "read_blocks" THEN RawCDImage_read_sector(st, FALSE, address)
    ELSE IF op = "read_blocks_data" THEN RawCDImage_read_sector(st, FALSE, address)
    ELSE RawCDImage_read_raw_sector(st, address)

\* the three lambdas of read_blocks, read_blocks_data and read_blocks_raw
RawCDImage_lambda(op, st, address) ==
    IF op = "read_blocks" THEN RawCDImage_read_sector(st, TRUE, address)
    ELSE IF op = "read_blocks_data" THEN RawCDImage_read_sector(st, FALSE, address)
    ELSE RawCDImage_read_raw_sector(st, address)

\* _read_blocks: the loop "for i in range(count - 1): data += read_sector()"
RECURSIVE RawCDImage_loop(_, _, _, _)
RawCDImage_loop(op, st, left, data) ==
    IF left <= 0 THEN Out(Ok(data), st, 1)
    ELSE LET append(more) ==
                 IF ~IsOk(more.res) THEN more
                 ELSE RawCDImage_loop(op, more.st, left - 1, data \o more.res.data)
         IN  append(RawCDImage_lambda(op, st, NoAddr))

RawCDImage_read_blocks(op, st, address, count) ==
    LET rest(first) ==
            IF ~IsOk(first.res) THEN first
            ELSE RawCDImage_loop(op, first.st, count - 1, first.res.data)
    IN  rest(RawCDImage_lambda(op, st, address))

(***************************************************************************)
(* The stack: level 0 is the base image, level i > 0 is stack[i].          *)
(***************************************************************************)
Layer(type, offset, bad, areas) ==
    [type |-> type, offset |-> offset, bad |-> bad, areas |-> areas]
OffsetedImage(offset) == Layer("offset", offset, {}, <<>>)
ImageWithBadMap(bad) == Layer("badmap", 0, bad, <<>>)
DDRescueImage(areas) == Layer("ddrescue", 0, {}, areas)

\* OffsetedImage.current_block: "self._image.current_block + offset", where
\* the name offset is not defined
OffsetedImage_current_block(inner, offset) ==
    IF IsOk(inner) THEN Raise("NameError", -1) ELSE inner

\* the current_block property of level i
RECURSIVE current_block(_, _)
current_block(i, st) ==
    IF i = 0 THEN Ok(<<IF base = "raw" THEN st.cur ELSE ISOImage_current_block(st)>>)
    ELSE IF stack[i].type = "offset"
         THEN OffsetedImage_current_block(current_block(i - 1, st), stack[i].offset)
    ELSE current_block(i - 1, st)

\* the test of DDRescueImage.read_blocks on one area
DDRescue_refuses(area, start, end) ==
    \/ (area[1] <= start /\ start < area[2])
    \/ (area[1] <= end /\ end < area[2])

\* the first bad area a read of [start, end) is refused for, 0 when none
DDRescue_hit(areas, start, end) ==
    LET hits == {k \in 1..Len(areas) : DDRescue_refuses(areas[k], start, end)}
    IN  IF hits = {} THEN 0 ELSE CHOOSE k \in hits : \A j \in hits : k <= j

\* _check_blocks: the first bad block of range(start, end), -1 when none
BadMap_hit(bad, start, end) ==
    LET hits == {b \in start..(end - 1) : b \in bad}
    IN  IF hits = {} THEN -1 ELSE CHOOSE b \in hits : \A j \in hits : b <= j

\* the operation of the inner image that each operation of an overlay calls
ImageWithBadMap_inner_op(op) == op
OffsetedImage_inner_op(op) == op
DDRescueImage_inner_op(op) == "read_blocks"

RECURSIVE Read(_, _, _, _, _)
Read(i, op, st, address, count) ==
    IF i = 0 THEN
        IF base = "raw" THEN RawCDImage_read_blocks(op, st, address, count)
        ELSE IF op = "read_blocks_raw" THEN Out(Raise("NotImplementedError", -1), st, 1)
        ELSE ISOImage_read_blocks(st, address, count)
    ELSE IF stack[i].type = "offset" THEN
        Read(i - 1, OffsetedImage_inner_op(op), st,
             IF IsNone(address) THEN address ELSE Addr(Val(address) - stack[i].offset), count)
    ELSE IF stack[i].type = "badmap" THEN
        LET cb == IF IsNone(address) THEN current_block(i, st) ELSE Ok(address)
        IN  IF ~IsOk(cb) THEN Out(cb, st, 0)
            ELSE LET hit == BadMap_hit(stack[i].bad, cb.data[1], cb.data[1] + count)
                 IN  IF hit >= 0 THEN Out(Raise("IOError: bad block", hit), st, 0)
                     ELSE Read(i - 1, ImageWithBadMap_inner_op(op), st, address, count)
    ELSE \* DDRescueImage
        IF op = "read_blocks_raw" THEN Out(Raise("NotImplementedError", -1), st, 0)
        ELSE
        LET cb == IF IsNone(address) THEN current_block(i, st) ELSE Ok(address)
        IN  IF ~IsOk(cb) THEN Out(cb, st, 0)
            ELSE LET start == cb.data[1] * DATA_SECTOR_SIZE
                     hit == DDRescue_hit(stack[i].areas, start, start + count * DATA_SECTOR_SIZE)
                 IN  IF hit > 0 THEN Out(Raise("IOError: bad block", stack[i].areas[hit][1]), st, 0)
                     ELSE Read(i - 1, DDRescueImage_inner_op(op), st, address, count)

(***************************************************************************)
(* Calls on the outermost image.  The record last keeps what the properties*)
(* compare: the call, its result, whether the base image was called and    *)
(* whether its state changed, and the result that the same call (at the    *)
(* address the overlay translates to) has on the image below.              *)
(***************************************************************************)
ReadOps == {"read_blocks", "read_blocks_data", "read_blocks_raw"}
Top == Len(stack)
St == [pos |-> fpos, cur |-> current_sector]

\* the end a + n of the last call when it was a successful read of n >= 1
\* blocks at an explicit address a, -1 otherwise
EndOfLast ==
    IF last.op \in ReadOps /\ IsOk(last.res) /\ ~IsNone(last.address) /\ last.count >= 1
    THEN Val(last.address) + last.count ELSE -1

InnerAddress(address) ==
    IF Top > 0 /\ stack[Top].type = "offset" /\ ~IsNone(address)
    THEN Addr(Val(address) - stack[Top].offset) ELSE address

Call(op, address, count) ==
    LET returned(out) ==
        /\ fpos' = out.st.pos
        /\ current_sector' = out.st.cur
        /\ last' = [op |-> op, address |-> address, count |-> count,
                    res |-> out.res,
                    delegated |-> out.calls > 0,
                    moved |-> out.st # St,
                    cb |-> IF IsNone(address) THEN current_block(0, St).data[1] ELSE Val(address),
                    inner |-> IF Top = 0 THEN Ok(<<>>)
                              ELSE Read(Top - 1, op, St, InnerAddress(address), count).res,
                    follows |-> IF IsNone(address) THEN EndOfLast ELSE -1]
        /\ UNCHANGED <<base, f, stack, image, pc, partitions, probes, subject, outcome>>
    IN  returned(Read(Top, op, St, address, count))

Addresses == {NoAddr} \cup {Addr(a) : a \in 0..MaxSectors}

read_blocks == \E a \in Addresses, n \in 1..MaxCount : Call("read_blocks", a, n)
read_blocks_data == \E a \in Addresses, n \in 1..MaxCount : Call("read_blocks_data", a, n)
read_blocks_raw == \E a \in Addresses, n \in 1..MaxCount : Call("read_blocks_raw", a, n)

\* evaluation of the current_block property of the outermost image
get_current_block ==
    /\ last' = [op |-> "current_block", address |-> NoAddr, count |-> 0,
                res |-> current_block(Top, St),
                delegated |-> FALSE, moved |-> FALSE,
                cb |-> current_block(0, St).data[1],
                inner |-> IF Top = 0 THEN Ok(<<>>) ELSE current_block(Top - 1, St),
                follows |-> -1]
    /\ UNCHANGED <<base, f, fpos, current_sector, stack, image, pc, partitions, probes,
                   subject, outcome>>

ImageNext == read_blocks \/ read_blocks_data \/ read_blocks_raw \/ get_current_block

\* the state after the constructors: ISOImage and RawCDImage seek to the
\* end of the file, RawCDImage sets _current_sector to 0
Files(palette, tails) ==
    {[sectors |-> s, tail |-> t] :
        s \in UNION {[1..n -> palette] : n \in 1..MaxSectors}, t \in tails}

ImageInit(bases, palette, tails, stacks) ==
    /\ base \in bases
    /\ f \in Files(palette, tails)
    /\ stack \in stacks
    /\ fpos = FileLen
    /\ current_sector = 0
    /\ last = [op |-> "init", address |-> NoAddr, count |-> 0, res |-> Ok(<<>>),
               delegated |-> FALSE, moved |-> FALSE, cb |-> 0,
               inner |-> Ok(<<>>), follows |-> -1]

(***************************************************************************)
(* The disc orchestrator and its two probes.  The image a probe reads is   *)
(* given by its decoded blocks, relative to the base offset: the 2048-byte *)
(* blocks 16, 17, ... that the ISO 9660 probe decodes as volume            *)
(* descriptors, and the 512-byte blocks 0, 1, ... of the Apple probe.  A   *)
(* block is the record of the fields that struct.unpack extracts from it.  *)
(***************************************************************************)
MaxVDs == 3
MaxAppleBlocks == 4

discvars == <<image, pc, partitions, probes>>
vars == <<base, f, fpos, current_sector, stack, last, image, pc, partitions, probes,
          subject, outcome>>

\* a constructed object: its class, the index of the block it was decoded
\* from, its label and the objects it holds
Object(cls, at, label, parts) == [cls |-> cls, at |-> at, label |-> label, parts |-> parts]

\* the outcome of a probe or constructor: an object (or a list of them), or
\* the exception raised, with the objects constructed before it
Built(v) == [kind |-> "ok", data |-> v, err |-> "", partial |-> <<>>]
Failed(e, partial) == [kind |-> "error", data |-> <<>>, err |-> e, partial |-> partial]

\* a read of one block past the end of the image: RawCDImage raises, ISOImage
\* returns fewer bytes than asked for
ShortRead == IF image.kind = "raw" THEN "IOError: can't read entire sector" ELSE "short"

(***************************************************************************)
(* iso9660.py                                                              *)
(***************************************************************************)
Pair(v) == <<v, v>>

\* a constructor that does not compare the two copies of the extent location
DirectoryRecord_init_unchecked(r) ==
    IF r.length = 0 THEN "ValueError: invalid length for directory record"
    ELSE IF r.length + r.extended_attributes_length > 34
         THEN "ValueError: data length mismatch for directory record"
    ELSE IF r.data_length[1] # r.data_length[2]
         THEN "ValueError: data length fields do not match"
    ELSE IF r.volume_sequence_number[1] # r.volume_sequence_number[2]
         THEN "ValueError: volume sequence number fields do not match"
    ELSE IF ~r.date_valid THEN "ValueError: datetime"
    ELSE ""

DirectoryRecord_init(r) ==
    IF r.length = 0 THEN "ValueError: invalid length for directory record"
    ELSE IF r.length + r.extended_attributes_length > 34
         THEN "ValueError: data length mismatch for directory record"
    ELSE IF r.extent[1] # r.extent[2]
         THEN "ValueError: extent location fields do not match"
    ELSE IF r.data_length[1] # r.data_length[2]
         THEN "ValueError: data length fields do not match"
    ELSE IF r.volume_sequence_number[1] # r.volume_sequence_number[2]
         THEN "ValueError: volume sequence number fields do not match"
    ELSE IF ~r.date_valid THEN "ValueError: datetime"
    ELSE ""

\* PartitionVolumeDescriptor.__init__: "" or the exception raised
PartitionVolumeDescriptor_init(vd) ==
    IF vd.identifier # "CD001" THEN "ValueError: invalid identifier"
    ELSE IF vd.version # 1 THEN "ValueError: invalid version"
    ELSE IF vd.volume_flags \notin {0, 1} THEN "ValueError: invalid volume flags"
    ELSE IF ~vd.decodable THEN "UnicodeDecodeError"
    ELSE IF ~vd.unused1_zero THEN "ValueError: invalid unused1"
    ELSE IF vd.volume_space_size[1] # vd.volume_space_size[2]
         THEN "ValueError: volume space size fields do not match"
    ELSE IF vd.volume_set_size[1] # vd.volume_set_size[2]
         THEN "ValueError: volume set size fields do not match"
    ELSE IF vd.volume_sequence_number[1] # vd.volume_sequence_number[2]
         THEN "ValueError: volume sequence number fields do not match"
    ELSE IF vd.logical_block_size[1] # vd.logical_block_size[2]
         THEN "ValueError: logical block size fields do not match"
    ELSE IF vd.path_table_size[1] # vd.path_table_size[2]
         THEN "ValueError: path table size fields do not match"
    ELSE IF ~vd.path_table_readable /\ image.kind = "raw" THEN ShortRead
    ELSE IF DirectoryRecord_init(vd.root_directory_entry) # ""
         THEN DirectoryRecord_init(vd.root_directory_entry)
    ELSE IF ~vd.dates_valid THEN "ValueError: datetime"
    ELSE IF vd.file_structure_version # 1 THEN "ValueError: invalid file structure version"
    ELSE IF vd.unused4 # 0 THEN "ValueError: invalid unused4"
    ELSE ""

PrimaryVolumeDescriptor_init(vd, at) ==
    LET e == PartitionVolumeDescriptor_init(vd)
    IN  IF e # "" THEN Failed(e, <<>>)
        ELSE IF vd.volume_flags = 1 THEN Failed("ValueError: invalid volume flags", <<>>)
        ELSE IF vd.escape_sequences # "zero"
             THEN Failed("ValueError: invalid escape sequences", <<>>)
        ELSE Built(Object("PrimaryVolumeDescriptor", at, vd.volume_identifier, <<>>))

SupplementaryVolumeDescriptor_init(vd, at) ==
    LET e == PartitionVolumeDescriptor_init(vd)
    IN  IF e # "" THEN Failed(e, <<>>)
        ELSE IF vd.volume_flags = 1
             THEN Failed("ValueError: additional escape sequences not supported", <<>>)
        ELSE IF vd.escape_sequences \notin {"joliet1", "joliet2", "joliet3"}
             THEN Failed("ValueError: not supported escape sequences", <<>>)
        ELSE Built(Object("SupplementaryVolumeDescriptor", at, vd.volume_identifier, <<>>))

BootRecordVolumeDescriptor_init(vd, at) ==
    IF vd.identifier # "CD001" THEN Failed("ValueError: invalid identifier", <<>>)
    ELSE IF vd.version # 1 THEN Failed("ValueError: invalid version", <<>>)
    ELSE Built(Object("BootRecordVolumeDescriptor", at, "", <<>>))

\* VolumeDescriptor.from_sector: dispatch on get_type()
VolumeDescriptor_from_sector(vd, at) ==
    IF vd.type = 0 THEN BootRecordVolumeDescriptor_init(vd, at)
    ELSE IF vd.type = 1 THEN PrimaryVolumeDescriptor_init(vd, at)
    ELSE IF vd.type = 2 THEN SupplementaryVolumeDescriptor_init(vd, at)
    ELSE IF vd.type = 3 THEN Built(Object("VolumePartitionDescriptor", at, "", <<>>))
    ELSE IF vd.type = 255 THEN Built(Object("VolumeDescriptorSetTerminator", at, "", <<>>))
    ELSE Failed("ValueError: unknown volume descriptor type", <<>>)

\* the loop of ISO9660.__init__ from descriptor index on
RECURSIVE ISO9660_loop(_, _)
ISO9660_loop(index, volume_descriptors) ==
    IF index >= Len(image.vds)
    THEN Failed(IF ShortRead = "short" THEN "struct.error" ELSE ShortRead, volume_descriptors)
    ELSE LET vd == VolumeDescriptor_from_sector(image.vds[index + 1], index)
         IN  IF ~IsOk(vd) THEN Failed(vd.err, volume_descriptors)
             ELSE IF vd.data.cls = "VolumeDescriptorSetTerminator"
                  THEN Built(Append(volume_descriptors, vd.data))
             ELSE ISO9660_loop(index + 1, Append(volume_descriptors, vd.data))

ISO9660_init == ISO9660_loop(0, <<>>)

\* isinstance(vd, common.Partition)
IsPartitionClass(cls) ==
    cls \in {"PrimaryVolumeDescriptor", "SupplementaryVolumeDescriptor", "HFSPartition"}

\* a partitions property that filters nothing
ISO9660_partitions_unfiltered(volume_descriptors) == volume_descriptors

\* ISO9660.partitions
ISO9660_partitions(volume_descriptors) ==
    SelectSeq(volume_descriptors, LAMBDA vd : IsPartitionClass(vd.cls))

(***************************************************************************)
(* apple.py                                                                *)
(***************************************************************************)
\* Volume.read_blocks(address) for one 512-byte block: the block, the
\* exception of RawCDImage past the end of the file, or "hang": the loop
\* "while len(data) < count * self.block_size" never ends when ISOImage
\* returns no bytes
Volume_read_blocks(address) ==
    IF address < Len(image.apple) THEN Built(image.apple[address + 1])
    ELSE IF image.kind = "raw" THEN Failed(ShortRead, <<>>)
    ELSE Failed("hang", <<>>)

\* a constructor that accepts every allocation block size
HFSPartition_init_any_size(entry, at) ==
    LET boot0 == Volume_read_blocks(entry.start_block)
        boot1 == Volume_read_blocks(entry.start_block + 1)
        mdb == Volume_read_blocks(entry.start_block + 2)
    IN  IF ~IsOk(boot0) THEN boot0
        ELSE IF ~IsOk(boot1) THEN boot1
        ELSE IF ~IsOk(mdb) THEN mdb
        ELSE IF mdb.data.signature # "BD"
             THEN Failed("ValueError: invalid signature for HFS master directory block", <<>>)
        ELSE IF mdb.data.catalog_file_size # mdb.data.catalog_extents_size * mdb.data.allocation_block_size
             THEN Failed("ValueError: incorrect size for catalog file extent records", <<>>)
        ELSE IF mdb.data.catalog_extents_size = 0
             THEN Failed("ValueError: read past extent group end", <<>>)
        ELSE IF (mdb.data.allocation_block_size \div 512) * 512 < 34
             THEN Failed("struct.error", <<>>)
        ELSE IF ~mdb.data.catalog_valid THEN Failed("ValueError: catalog file", <<>>)
        ELSE Built(Object("HFSPartition", at, mdb.data.label, <<>>))

\* HFSPartition.__init__ for the entry at block at; BTree.__init__ first reads
\* one allocation block of the catalog file, (size // 512) * 512 bytes, and
\* unpacks the node size from its bytes 32..33
HFSPartition_init(entry, at) ==
    LET boot0 == Volume_read_blocks(entry.start_block)
        boot1 == Volume_read_blocks(entry.start_block + 1)
        mdb == Volume_read_blocks(entry.start_block + 2)
    IN  IF ~IsOk(boot0) THEN boot0
        ELSE IF ~IsOk(boot1) THEN boot1
        ELSE IF ~IsOk(mdb) THEN mdb
        ELSE IF mdb.data.signature # "BD"
             THEN Failed("ValueError: invalid signature for HFS master directory block", <<>>)
        ELSE IF mdb.data.allocation_block_size % 512 # 0
             THEN Failed("ValueError: invalid allocation block size", <<>>)
        ELSE IF mdb.data.catalog_file_size # mdb.data.catalog_extents_size * mdb.data.allocation_block_size
             THEN Failed("ValueError: incorrect size for catalog file extent records", <<>>)
        ELSE IF mdb.data.catalog_extents_size = 0
             THEN Failed("ValueError: read past extent group end", <<>>)
        ELSE IF (mdb.data.allocation_block_size \div 512) * 512 < 34
             THEN Failed("struct.error", <<>>)
        ELSE IF ~mdb.data.catalog_valid THEN Failed("ValueError: catalog file", <<>>)
        ELSE Built(Object("HFSPartition", at, mdb.data.label, <<>>))

\* Partition.from_sector and the constructors it dispatches to; depth is
\* the number of partition maps being constructed: a map nested deeper than
\* the image has blocks contains itself, and Python raises RecursionError
RECURSIVE Partition_from_sector(_, _, _)
RECURSIVE PartitionMap_loop(_, _, _, _)

\* the loop of PartitionMap.__init__ from i on
PartitionMap_loop(entry, i, parts, depth) ==
    IF i >= entry.partition_count - 1 THEN Built(parts)
    ELSE LET data == Volume_read_blocks(entry.start_block + 1 + i)
         IN  IF ~IsOk(data) THEN Failed(data.err, parts)
             ELSE LET partition == Partition_from_sector(data.data, entry.start_block + 1 + i, depth)
                  IN  IF ~IsOk(partition) THEN Failed(partition.err, parts)
                      ELSE PartitionMap_loop(entry, i + 1, Append(parts, partition.data), depth)

Partition_from_sector(data, at, depth) ==
    IF data.signature # "PM" THEN Failed("ValueError: invalid signature for apple block1", <<>>)
    ELSE IF ~data.decodable THEN Failed("UnicodeDecodeError", <<>>)
    ELSE IF data.type = "Apple_partition_map" THEN
        IF depth > Len(image.apple) THEN Failed("RecursionError", <<>>)
        ELSE LET parts == PartitionMap_loop(data, 0, <<>>, depth + 1)
             IN  IF ~IsOk(parts) THEN Failed(parts.err, parts.partial)
                 ELSE Built(Object("PartitionMap", at, "", parts.data))
    ELSE IF data.type = "Apple_HFS" THEN HFSPartition_init(data, at)
    ELSE Failed("ValueError: unknown apple partition type", <<>>)

\* Volume.__init__
Volume_init ==
    LET block0 == Volume_read_blocks(0)
    IN  IF ~IsOk(block0) THEN block0
        ELSE IF block0.data.signature # "ER"
             THEN Failed("ValueError: invalid signature for apple volume block0", <<>>)
        ELSE IF block0.data.block_size # 512
             THEN Failed("ValueError: invalid block size for apple volume block0", <<>>)
        ELSE LET block1 == Volume_read_blocks(1)
             IN  IF ~IsOk(block1) THEN block1
                 ELSE Partition_from_sector(block1.data, 1, 0)

\* Volume.partitions: self._partition_map._partitions
Volume_partitions(partition_map) ==
    IF partition_map.cls = "PartitionMap" THEN Built(partition_map.parts)
    ELSE Failed("AttributeError", <<>>)

(***************************************************************************)
(* __init__.py: Disc.__init__                                              *)
(***************************************************************************)
\* "volume = cls(image, base_offset)" and "volume.partitions" for one class:
\* the partitions, or the exception and what had been decoded before it
Probe(cls) ==
    IF cls = "ISO9660"
    THEN LET volume == ISO9660_init
         IN  IF IsOk(volume) THEN Built(ISO9660_partitions(volume.data))
             ELSE Failed(volume.err, ISO9660_partitions(volume.partial))
    ELSE LET volume == Volume_init
         IN  IF IsOk(volume) THEN Volume_partitions(volume.data)
             ELSE volume

\* a try statement that keeps what a probe had decoded before it raised
Disc_extend_partial(list, probe) ==
    IF IsOk(probe) THEN list \o probe.data ELSE list \o probe.partial

\* the body of the try statement: the list is extended only by a probe
\* that raised nothing
Disc_extend(list, probe) == IF IsOk(probe) THEN list \o probe.data ELSE list

\* one iteration of "for cls in (iso9660.ISO9660, apple.Volume)"
Disc_probe(cls, next) ==
    LET probe == Probe(cls)
    IN  /\ partitions' = Disc_extend(partitions, probe)
        /\ probes' = Append(probes, [cls |-> cls, kind |-> probe.kind, err |-> probe.err,
                                     data |-> probe.data, partial |-> probe.partial])
        /\ pc' = IF probe.err = "hang" THEN "hung" ELSE next
        /\ UNCHANGED <<image, base, f, fpos, current_sector, stack, last, subject, outcome>>

ProbeISO9660 == pc = "iso" /\ Disc_probe("ISO9660", "apple")
ProbeApple == pc = "apple" /\ Disc_probe("Volume", "done")

DiscNext == ProbeISO9660 \/ ProbeApple

(***************************************************************************)
(* Images for the probes.                                                  *)
(***************************************************************************)
GoodRecord ==
    [length |-> 34, extended_attributes_length |-> 0, extent |-> Pair(18),
     data_length |-> Pair(2048), volume_sequence_number |-> Pair(1), date_valid |-> TRUE]

Descriptor(type, label, escape_sequences) ==
    [type |-> type, identifier |-> "CD001", version |-> 1, volume_flags |-> 0,
     decodable |-> TRUE, unused1_zero |-> TRUE, volume_space_size |-> Pair(20),
     volume_set_size |-> Pair(1), volume_sequence_number |-> Pair(1),
     logical_block_size |-> Pair(2048), path_table_size |-> Pair(10),
     path_table_readable |-> TRUE, root_directory_entry |-> GoodRecord,
     dates_valid |-> TRUE, file_structure_version |-> 1, unused4 |-> 0,
     escape_sequences |-> escape_sequences, volume_identifier |-> label]

VDPalette ==
    { Descriptor(1, "HELLO", "zero"),
      Descriptor(2, "Greeting", "joliet3"),
      Descriptor(255, "", "zero"),
      Descriptor(0, "", "zero"),
      Descriptor(3, "", "zero"),
      Descriptor(7, "", "zero"),
      [Descriptor(1, "BROKEN", "zero") EXCEPT !.volume_space_size = <<20, 21>>],
      [Descriptor(2, "Broken", "joliet3") EXCEPT !.path_table_size = <<10, 11>>],
      [Descriptor(1, "BROKEN", "zero") EXCEPT !.root_directory_entry.extent = <<18, 19>>],
      [Descriptor(255, "", "zero") EXCEPT !.identifier = "XXXXX"] }

AppleBlock(signature, type, partition_count, start_block) ==
    [signature |-> signature, block_size |-> 512, type |-> type, decodable |-> TRUE,
     partition_count |-> partition_count, start_block |-> start_block,
     allocation_block_size |-> 512, catalog_file_size |-> 1024,
     catalog_extents_size |-> 2, catalog_valid |-> TRUE, label |-> "MAC"]

ApplePalette ==
    { AppleBlock("ER", "", 0, 0),
      [AppleBlock("ER", "", 0, 0) EXCEPT !.block_size = 2048],
      AppleBlock("PM", "Apple_partition_map", 2, 1),
      AppleBlock("PM", "Apple_partition_map", 1, 1),
      AppleBlock("PM", "Apple_partition_map", 2, 2),
      AppleBlock("PM", "Apple_HFS", 2, 1),
      AppleBlock("PM", "Apple_Free", 2, 1),
      AppleBlock("BD", "", 0, 0),
      [AppleBlock("BD", "", 0, 0) EXCEPT !.allocation_block_size = 700,
                                         !.catalog_file_size = 1400],
      [AppleBlock("BD", "", 0, 0) EXCEPT !.allocation_block_size = 0,
                                         !.catalog_file_size = 0] }

SeqsUpTo(S, n) == UNION {[1..k -> S] : k \in 0..n}

\* an Apple volume with one HFS partition
GoodApple ==
    << AppleBlock("ER", "", 0, 0), AppleBlock("PM", "Apple_partition_map", 2, 1),
       AppleBlock("PM", "Apple_HFS", 2, 1), AppleBlock("BD", "", 0, 0) >>
\* an ISO 9660 volume with a primary descriptor
GoodISO == << Descriptor(1, "HELLO", "zero"), Descriptor(255, "", "zero") >>

ImageIdle ==
    /\ base = "iso"
    /\ f = [sectors |-> <<>>, tail |-> 0]
    /\ stack = <<>>
    /\ fpos = 0
    /\ current_sector = 0
    /\ last = [op |-> "init", address |-> NoAddr, count |-> 0, res |-> Ok(<<>>),
               delegated |-> FALSE, moved |-> FALSE, cb |-> 0,
               inner |-> Ok(<<>>), follows |-> -1]

\* no file-system operation has been applied
FsIdle ==
    /\ subject = <<>>
    /\ outcome = [op |-> "init"]

DiscIdle ==
    /\ image = [kind |-> "iso", vds |-> <<>>, apple |-> <<>>]
    /\ pc = "idle"
    /\ partitions = <<>>
    /\ probes = <<>>

DiscInit ==
    /\ ImageIdle
    /\ \E kind \in {"iso", "raw"} :
          \/ \E vds \in SeqsUpTo(VDPalette, MaxVDs), apple \in {<<>>, GoodApple} :
                image = [kind |-> kind, vds |-> vds, apple |-> apple]
          \/ \E vds \in {<<>>, GoodISO}, apple \in SeqsUpTo(ApplePalette, MaxAppleBlocks) :
                image = [kind |-> kind, vds |-> vds, apple |-> apple]
    /\ pc = "iso"
    /\ partitions = <<>>
    /\ probes = <<>>
    /\ FsIdle

Spec == DiscInit /\ [][DiscNext]_vars

(***************************************************************************)
(* Specifications of the image stack.                                      *)
(***************************************************************************)
RawInit == ImageInit({"raw"}, {1, 2, 4, 5}, {0, 1}, {<<>>}) /\ DiscIdle /\ FsIdle
SpecRaw == RawInit /\ [][ImageNext]_vars

(***************************************************************************)
(* C1: Disc runs the ISO 9660 probe and then the Apple probe; a probe that *)
(* raises contributes no partition, not even those it had decoded before   *)
(* the exception, the other probe still runs, and the partitions of the    *)
(* disc are those of the ISO probe followed by those of the Apple probe.   *)
(***************************************************************************)
Contribution(probe) == IF probe.kind = "ok" THEN probe.data ELSE <<>>

C1_ProbesIsolatedAndInOrder ==
    /\ pc = "apple" =>
          /\ Len(probes) = 1 /\ probes[1].cls = "ISO9660"
          /\ partitions = Contribution(probes[1])
    /\ pc = "done" =>
          /\ Len(probes) = 2 /\ probes[1].cls = "ISO9660" /\ probes[2].cls = "Volume"
          /\ partitions = Contribution(probes[1]) \o Contribution(probes[2])

\* the ISO probe raised after decoding a partition and the Apple probe
\* still ran and found one
C1_Witness ==
    /\ pc = "done"
    /\ probes[1].kind = "error" /\ probes[1].partial # <<>>
    /\ probes[2].kind = "ok" /\ probes[2].data # <<>>
    /\ partitions = probes[2].data

(***************************************************************************)
(* C2: every element of disc.partitions has a type among iso9660, joliet   *)
(* and applehfs, a label and a root directory; no partition-map entry is   *)
(* in the list.                                                            *)
(***************************************************************************)
\* the type property of an object, by class
PartitionType(obj) ==
    IF obj.cls = "PrimaryVolumeDescriptor" THEN "iso9660"
    ELSE IF obj.cls = "SupplementaryVolumeDescriptor" THEN "joliet"
    ELSE IF obj.cls = "HFSPartition" THEN "applehfs"
    ELSE "AttributeError"

C2_OnlyPartitions ==
    pc = "done" =>
        \A i \in 1..Len(partitions) :
            /\ IsPartitionClass(partitions[i].cls)
            /\ PartitionType(partitions[i]) \in {"iso9660", "joliet", "applehfs"}

(***************************************************************************)
(* The overlays, composed as the front-ends compose them: base, then the   *)
(* offset shim, then the bad-sector map, then the ddrescue map.            *)
(***************************************************************************)
\* bad areas of a ddrescue map, in bytes: a range strictly inside block 1,
\* the whole of block 2, and a map whose only row is '+'
MapInside == << <<DATA_SECTOR_SIZE + 10, DATA_SECTOR_SIZE + 20>> >>
MapBlock == << <<2 * DATA_SECTOR_SIZE, 3 * DATA_SECTOR_SIZE>> >>
MapGood == << >>

Stacks ==
    { o \o b \o d :
        o \in {<<>>, <<OffsetedImage(1)>>},
        b \in {<<>>, <<ImageWithBadMap({1})>>},
        d \in {<<>>, <<DDRescueImage(MapInside)>>, <<DDRescueImage(MapBlock)>>,
               <<DDRescueImage(MapGood)>>} }

StackInit == ImageInit({"iso", "raw"}, {5}, {0}, Stacks) /\ DiscIdle /\ FsIdle
SpecStack == StackInit /\ [][ImageNext]_vars

\* the last call was op(a, n) with an explicit address on an overlay of the
\* given type
ExplicitOn(type, ops) ==
    /\ Top > 0 /\ stack[Top].type = type
    /\ last.op \in ops /\ ~IsNone(last.address) /\ last.count >= 1

\* the blocks [a, a + n) share a byte with a bad area of the ddrescue map
SharesByte(areas, a, n) ==
    \E k \in 1..Len(areas) :
        /\ areas[k][1] < areas[k][2]
        /\ areas[k][1] < (a + n) * DATA_SECTOR_SIZE
        /\ a * DATA_SECTOR_SIZE < areas[k][2]

BadBlock(r) == ~IsOk(r) /\ r.err = "IOError: bad block"

(***************************************************************************)
(* C3: on a DDRescueImage a read of n >= 1 blocks at address a whose byte  *)
(* range shares a byte with a bad range of the map fails with a bad-block  *)
(* error and is not delegated to the inner image, also when the bad range  *)
(* lies strictly inside the byte range of the read.                        *)
(***************************************************************************)
C3_OverlappingReadRefused ==
    (/\ ExplicitOn("ddrescue", {"read_blocks"})
     /\ SharesByte(stack[Top].areas, Val(last.address), last.count))
    => (/\ \E k \in 1..Len(stack[Top].areas) :
              last.res = Raise("IOError: bad block", stack[Top].areas[k][1])
        /\ ~last.delegated)

(***************************************************************************)
(* C4: on a DDRescueImage a read of n >= 1 blocks at address a whose byte  *)
(* range shares no byte with a bad range is passed to the inner image and  *)
(* returns its result, also when the read ends exactly where a bad range   *)
(* starts.                                                                 *)
(***************************************************************************)
C4_DisjointReadPasses ==
    (/\ ExplicitOn("ddrescue", {"read_blocks"})
     /\ ~SharesByte(stack[Top].areas, Val(last.address), last.count))
    => last.res = last.inner

(***************************************************************************)
(* C5: on an ImageWithBadMap each of the three reads over blocks           *)
(* [a, a + n) fails with a bad-block error exactly when an address of      *)
(* [a, a + n) is in the bad set; when it fails the inner image is not read *)
(* and its cursor is unchanged, otherwise the result of the inner image's  *)
(* same operation is returned.  Without an address a is the current block. *)
(***************************************************************************)
\* the sum of the offsets of the shims up to level i
RECURSIVE Offsets(_)
Offsets(i) == IF i = 0 THEN 0 ELSE stack[i].offset + Offsets(i - 1)

C5_BadMapRefusesExactly ==
    (Top > 0 /\ stack[Top].type = "badmap" /\ last.op \in ReadOps /\ last.count >= 1)
    => LET a == IF IsNone(last.address) THEN last.cb + Offsets(Top) ELSE Val(last.address)
           bad == \E b \in a..(a + last.count - 1) : b \in stack[Top].bad
       IN  /\ BadBlock(last.res) <=> bad
           /\ bad => (~last.delegated /\ ~last.moved)
           /\ ~bad => last.res = last.inner

(***************************************************************************)
(* C6: a read_blocks, read_blocks_data or read_blocks_raw call at an       *)
(* address a that an overlay does not refuse returns what the operation of *)
(* the same name of the layer below returns at the translated address:     *)
(* a - offset for the offset shim, a for the two maps.                     *)
(***************************************************************************)
C6_OverlayDelegatesSameOperation ==
    (/\ Top > 0 /\ last.op \in ReadOps /\ ~IsNone(last.address)
     /\ ~BadBlock(last.res))
    => last.res = last.inner

(***************************************************************************)
(* C7: the current_block of an OffsetedImage is the current_block of its   *)
(* inner image plus the offset, and an overlay above an offset shim can    *)
(* evaluate current_block without error.                                   *)
(***************************************************************************)
C7_OffsetCurrentBlock ==
    (Top > 0 /\ last.op = "current_block")
    => (IsOk(last.res) /\ last.res.data = <<last.cb + Offsets(Top)>>)

(***************************************************************************)
(* C8: on a RawCDImage, after a successful read of n >= 1 sectors at an    *)
(* explicit address a, current_block = a + n; a read without address of m  *)
(* sectors that follows it returns the sectors a + n .. a + n + m - 1 in   *)
(* order and leaves current_block = a + n + m.                             *)
(***************************************************************************)
\* what an operation returns for sector k of the file
Sector(op, k) ==
    IF op = "read_blocks_raw" THEN SectorPalette[f.sectors[k + 1]]
    ELSE Decoded[f.sectors[k + 1]][op = "read_blocks"].data

RECURSIVE Sectors(_, _, _)
Sectors(op, k, m) == IF m = 0 THEN <<>> ELSE Sector(op, k) \o Sectors(op, k + 1, m - 1)

C8_CursorFollowsReads ==
    (base = "raw" /\ Top = 0 /\ last.op \in ReadOps /\ IsOk(last.res) /\ last.count >= 1)
    => /\ ~IsNone(last.address) =>
              current_block(0, St) = Ok(<<Val(last.address) + last.count>>)
       /\ last.follows >= 0 =>
              /\ last.res.data = Sectors(last.op, last.follows, last.count)
              /\ current_block(0, St) = Ok(<<last.follows + last.count>>)

\* a read of two sectors without address succeeded after a read at an
\* explicit address
C8_Witness ==
    /\ base = "raw" /\ Top = 0
    /\ last.op = "read_blocks_data" /\ IsOk(last.res)
    /\ last.follows >= 1 /\ last.count = 2
    /\ current_sector = last.follows + 2

(***************************************************************************)
(* C9: read_blocks and read_blocks_data of a Mode 1 sector with the right  *)
(* sync pattern, the EDC of sync||offset||mode||data and the P/Q parity of *)
(* offset||mode||data||edc succeed and return the data bytes of the        *)
(* sector.                                                                 *)
(***************************************************************************)
Mode1Data(sector) == Slice(sector, 16, 16 + DATA_SECTOR_SIZE)
Mode1EdcMatches(sector) ==
    UnpackI(Slice(sector, 16 + DATA_SECTOR_SIZE, 20 + DATA_SECTOR_SIZE))
        = EDC_compute(Slice(sector, 0, 16 + DATA_SECTOR_SIZE))

\* the sectors of the palette that are well-formed Mode 1 sectors
ValidMode1 ==
    { k \in 1..Len(SectorPalette) :
        LET sector == SectorPalette[k]
        IN  /\ Slice(sector, 0, 12) = SYNC
            /\ sector[16] = 1
            /\ Mode1EdcMatches(sector)
            /\ Ok(Slice(sector, 28 + DATA_SECTOR_SIZE, RAW_SECTOR_SIZE))
                 = ECC_compute(Slice(sector, 12, 28 + DATA_SECTOR_SIZE)) }

C9_ValidMode1Read ==
    (/\ base = "raw" /\ Top = 0 /\ last.op \in {"read_blocks", "read_blocks_data"}
     /\ ~IsNone(last.address) /\ last.count = 1
     /\ Val(last.address) < Len(f.sectors)
     /\ f.sectors[Val(last.address) + 1] \in ValidMode1)
    => /\ IsOk(last.res)
       /\ last.res.data = Mode1Data(SectorPalette[f.sectors[Val(last.address) + 1]])

(***************************************************************************)
(* C10: when a read_blocks or read_blocks_data reaches a Mode 1 sector at  *)
(* index s whose stored EDC is not the EDC of its contents, at the address *)
(* of the call or by continuation, it fails with the EDC-invalid error     *)
(* that names s.                                                           *)
(***************************************************************************)
BadEdcMode1 ==
    { k \in 1..Len(SectorPalette) :
        LET sector == SectorPalette[k]
        IN  Slice(sector, 0, 12) = SYNC /\ sector[16] = 1 /\ ~Mode1EdcMatches(sector) }

C10_BadEdcNamed ==
    (/\ base = "raw" /\ Top = 0 /\ last.op \in {"read_blocks", "read_blocks_data"}
     /\ ~IsNone(last.address) /\ last.count >= 1)
    => \A s \in Val(last.address)..(Val(last.address) + last.count - 1) :
          (/\ s < Len(f.sectors)
           /\ f.sectors[s + 1] \in BadEdcMode1
           /\ \A k \in Val(last.address)..(s - 1) :
                 IsOk(Decoded[f.sectors[k + 1]][last.op = "read_blocks"]))
          => (/\ ~IsOk(last.res)
              /\ last.res.err = "IOError: edc invalid"
              /\ last.res.arg = s)

(***************************************************************************)
(* C11: a Mode 2 sector with matching submode bytes and valid checksums is *)
(* returned as its 2048 data bytes by read_blocks and read_blocks_data     *)
(* when the Form 2 bit is clear; when the bit is set read_blocks_data      *)
(* returns its 2324 data bytes and read_blocks fails.  Every successful    *)
(* read_blocks of n >= 1 sectors returns n * 2048 bytes.                   *)
(***************************************************************************)
Mode2Subheader(sector) == Slice(sector, 16, 24)
Mode2Form2Bit(sector) == (sector[19] \div 32) % 2 = 1

\* the sectors of the palette that are well-formed Mode 2 Form 1 sectors
ValidMode2Form1 ==
    { k \in 1..Len(SectorPalette) :
        LET sector == SectorPalette[k]
        IN  /\ Slice(sector, 0, 12) = SYNC
            /\ sector[16] = 2
            /\ sector[19] = sector[23]
            /\ ~Mode2Form2Bit(sector)
            /\ UnpackI(Slice(sector, 24 + DATA_SECTOR_SIZE, 28 + DATA_SECTOR_SIZE))
                 = EDC_compute(Slice(sector, 16, 24 + DATA_SECTOR_SIZE))
            /\ Ok(Slice(sector, 28 + DATA_SECTOR_SIZE, RAW_SECTOR_SIZE))
                 = ECC_compute(Zeros(4) \o Slice(sector, 16, 28 + DATA_SECTOR_SIZE)) }

\* the sectors of the palette that are well-formed Mode 2 Form 2 sectors
ValidMode2Form2 ==
    { k \in 1..Len(SectorPalette) :
        LET sector == SectorPalette[k]
        IN  /\ Slice(sector, 0, 12) = SYNC
            /\ sector[16] = 2
            /\ sector[19] = sector[23]
            /\ Mode2Form2Bit(sector)
            /\ UnpackI(Slice(sector, 24 + FORM2_DATA_SIZE, 28 + FORM2_DATA_SIZE))
                 = EDC_compute(Slice(sector, 16, 24 + FORM2_DATA_SIZE)) }

\* the last call read the one sector k of the file at an explicit address
ReadOne(ops, kinds) ==
    /\ base = "raw" /\ Top = 0 /\ last.op \in ops
    /\ ~IsNone(last.address) /\ last.count = 1
    /\ Val(last.address) < Len(f.sectors)
    /\ f.sectors[Val(last.address) + 1] \in kinds

C11_Mode2Forms ==
    LET sector == SectorPalette[f.sectors[Val(last.address) + 1]]
    IN  /\ ReadOne({"read_blocks", "read_blocks_data"}, ValidMode2Form1)
             => last.res = Ok(Slice(sector, 24, 24 + DATA_SECTOR_SIZE))
        /\ ReadOne({"read_blocks_data"}, ValidMode2Form2)
             => last.res = Ok(Slice(sector, 24, 24 + FORM2_DATA_SIZE))
        /\ ReadOne({"read_blocks"}, ValidMode2Form2) => ~IsOk(last.res)
        /\ (base = "raw" /\ Top = 0 /\ last.op = "read_blocks" /\ IsOk(last.res))
             => Len(last.res.data) = last.count * DATA_SECTOR_SIZE

\* read_blocks_data returned the long data area of a Form 2 sector
C11_Witness ==
    /\ ReadOne({"read_blocks_data"}, ValidMode2Form2)
    /\ IsOk(last.res) /\ Len(last.res.data) = FORM2_DATA_SIZE

(***************************************************************************)
(* C12: on both base images a read at or past the end of the file, for     *)
(* which the file returns fewer bytes than requested, fails with the       *)
(* short-read error and returns no shorter or empty result.                *)
(***************************************************************************)
C12_ShortReadFails ==
    (/\ Top = 0 /\ last.op \in {"read_blocks", "read_blocks_data"}
     /\ ~IsNone(last.address) /\ last.count >= 1
     /\ Val(last.address) >= Len(f.sectors))
    => last.res = Raise("IOError: can't read entire sector", -1)

(***************************************************************************)
(* C13: the ISO 9660 probe decodes the blocks 16, 17, ... in order, stops  *)
(* at the first Terminator and decodes no later block, and fails on a      *)
(* block of unknown type; its partitions are the Primary and Supplementary *)
(* descriptors before the Terminator, in on-disc order; a descriptor set   *)
(* that is only the Terminator gives an empty list.                        *)
(***************************************************************************)
Terminators == {i \in 1..Len(image.vds) : image.vds[i].type = 255}
\* the index of the first Terminator, past the end when there is none
FirstTerminator ==
    IF Terminators = {} THEN Len(image.vds) + 1
    ELSE CHOOSE i \in Terminators : \A j \in Terminators : i <= j
DescriptorTypes == {0, 1, 2, 3, 255}

C14_IdentifierAndVersion ==
    Len(probes) >= 1 =>
        \A i \in 1..Len(image.vds) :
            (/\ i <= FirstTerminator
             /\ image.vds[i].type \in DescriptorTypes
             /\ (image.vds[i].identifier # "CD001" \/ image.vds[i].version # 1))
            => probes[1].kind = "error"

(***************************************************************************)
(* C15: a Primary or Supplementary descriptor is constructed only if the   *)
(* two copies of volume space size, volume set size, volume sequence       *)
(* number, logical block size and path table size agree, and its root      *)
(* directory record only if the two copies of extent location, data length *)
(* and volume sequence number agree; a mismatch raises and no object is    *)
(* produced.                                                               *)
(***************************************************************************)
Agree(pair) == pair[1] = pair[2]
BothEndianAgree(vd) ==
    /\ Agree(vd.volume_space_size) /\ Agree(vd.volume_set_size)
    /\ Agree(vd.volume_sequence_number) /\ Agree(vd.logical_block_size)
    /\ Agree(vd.path_table_size)
    /\ Agree(vd.root_directory_entry.extent)
    /\ Agree(vd.root_directory_entry.data_length)
    /\ Agree(vd.root_directory_entry.volume_sequence_number)

C15_BothEndianFieldsAgree ==
    Len(probes) >= 1 =>
        /\ \A obj \in {probes[1].data[j] : j \in 1..Len(probes[1].data)}
                 \cup {probes[1].partial[j] : j \in 1..Len(probes[1].partial)} :
              BothEndianAgree(image.vds[obj.at + 1])
        /\ \A i \in 1..Len(image.vds) :
              (i <= FirstTerminator /\ image.vds[i].type \in {1, 2}
               /\ ~BothEndianAgree(image.vds[i]))
              => probes[1].kind = "error"

\* a Primary descriptor was constructed, then one whose root directory
\* record has two different extent locations made the probe fail
C15_Witness ==
    /\ pc = "done" /\ probes[1].kind = "error"
    /\ probes[1].err = "ValueError: extent location fields do not match"
    /\ Len(probes[1].partial) = 1 /\ probes[1].partial[1].at = 0
    /\ ~BothEndianAgree(image.vds[2])

(***************************************************************************)
(* Directories of an ISO 9660 volume.  In the bytes of an extent a         *)
(* directory record is its length byte, its extended attribute length      *)
(* byte, the record of the other fields struct.unpack extracts from it,    *)
(* and filler up to its length: the header is 3 cells where the source's   *)
(* is 33 bytes.  A logical block is DATA_SECTOR_SIZE cells.                *)
(***************************************************************************)
MaxDirBlocks == 2
MaxChilds == 2

is_directory(r) == (r.flags \div 2) % 2 = 1
is_final(r) == (r.flags \div 128) % 2 = 1

\* DirectoryRecord(data, encoding) on the rest of an extent
DirectoryRecord(data) ==
    IF Len(data) < 3 THEN Raise("struct.error", 0)
    ELSE IF data[1] = 0
         THEN Raise("ValueError: invalid length for directory record", 0)
    ELSE IF data[1] + data[2] > Len(data)
         THEN Raise("ValueError: data length mismatch for directory record", 0)
    ELSE IF data[3].extent[1] # data[3].extent[2]
         THEN Raise("ValueError: extent location fields do not match", 0)
    ELSE IF data[3].data_length[1] # data[3].data_length[2]
         THEN Raise("ValueError: data length fields do not match", 0)
    ELSE IF data[3].volume_sequence_number[1] # data[3].volume_sequence_number[2]
         THEN Raise("ValueError: volume sequence number fields do not match", 0)
    ELSE IF ~data[3].date_valid THEN Raise("ValueError: datetime", 0)
    ELSE Ok([length |-> data[1], extended_attributes_length |-> data[2],
             extent |-> data[3].extent[1], data_length |-> data[3].data_length[1],
             flags |-> data[3].flags, identifier |-> data[3].identifier])

\* data[n:]
From(data, n) == IF n >= Len(data) THEN <<>> ELSE SubSeq(data, n + 1, Len(data))

\* the while loop of get_childs
RECURSIVE get_childs_loop(_, _)
get_childs_loop(data, childs) ==
    IF ~(Len(data) > 0 /\ data[1] > 0) THEN Ok(childs)
    ELSE LET next(record) ==
                 IF ~IsOk(record) THEN record
                 ELSE IF is_final(record.data) THEN Ok(Append(childs, record.data))
                 ELSE get_childs_loop(
                          From(data, record.data.length
                                     + record.data.extended_attributes_length),
                          Append(childs, record.data))
         IN  next(DirectoryRecord(data))

\* "data = data[data[0] + data[1]:]"
SkipEntry(data) ==
    IF Len(data) < 2 THEN Raise("IndexError", 0)
    ELSE Ok(From(data, data[1] + data[2]))

\* DirectoryRecord.get_childs of a directory record whose extent reads as
\* the bytes "extent"
DirectoryRecord_get_childs(record, extent) ==
    IF ~is_directory(record) THEN Raise("ValueError: not a directory", 0)
    ELSE LET second(data) ==
                 IF ~IsOk(data) THEN data
                 ELSE LET loop(rest) ==
                              IF ~IsOk(rest) THEN rest
                              ELSE get_childs_loop(rest.data, <<>>)
                      IN  loop(SkipEntry(data.data))
         IN  second(SkipEntry(extent))

\* Directory._get_child_records, without the wrapper objects
Directory_get_child_records(dir, directories) ==
    LET filter(childs) ==
            IF ~IsOk(childs) THEN childs
            ELSE Ok(SelectSeq(childs.data, LAMBDA r : is_directory(r) = directories))
    IN  filter(DirectoryRecord_get_childs(dir.record, dir.extent))

FsCall(op, res) ==
    /\ subject # <<>>
    /\ outcome' = [op |-> op, res |-> res]
    /\ UNCHANGED <<base, f, fpos, current_sector, stack, last, image, pc, partitions,
                   probes, subject>>

get_childs == FsCall("get_childs", DirectoryRecord_get_childs(subject.record, subject.extent))
Directory_directories == FsCall("directories", Directory_get_child_records(subject, TRUE))
Directory_files == FsCall("files", Directory_get_child_records(subject, FALSE))

DirNext == get_childs \/ Directory_directories \/ Directory_files

\* the bytes of a directory record
RecordBytes(length, flags, identifier) ==
    << length, 0,
       [extent |-> Pair(20), data_length |-> Pair(0), volume_sequence_number |-> Pair(1),
        date_valid |-> TRUE, flags |-> flags, identifier |-> identifier] >>
    \o Zeros(length - 3)

\* a file, a directory, and a file whose record has bit 7 of the flags set
ChildPalette == {[length |-> 8, flags |-> 0], [length |-> 10, flags |-> 2],
                 [length |-> 8, flags |-> 128]}

RECURSIVE Concat(_)
Concat(ss) == IF ss = <<>> THEN <<>> ELSE Head(ss) \o Concat(Tail(ss))

\* a logical block: the records, which never cross its end, and a tail of zeros
DirBlock(records) ==
    LET fill(bytes) == bytes \o Zeros(DATA_SECTOR_SIZE - Len(bytes))
    IN  fill(Concat(records))

\* the extent of a directory whose b-th block records the childs kinds[b]
DirExtent(kinds) ==
    Concat([b \in 1..Len(kinds) |->
        DirBlock((IF b = 1 THEN <<RecordBytes(6, 2, 0), RecordBytes(6, 2, 1)>> ELSE <<>>)
                 \o [i \in 1..Len(kinds[b]) |->
                        RecordBytes(kinds[b][i].length, kinds[b][i].flags, 10 * b + i)])])

DirKinds ==
    UNION {[1..n -> SeqsUpTo(ChildPalette, MaxChilds)] : n \in 1..MaxDirBlocks}

\* the directories, and a record of a file whose extent holds records
DirSubjects ==
    {[record |-> [flags |-> 2, extent |-> 20, data_length |-> Len(DirExtent(k))],
      extent |-> DirExtent(k)] : k \in DirKinds}
    \cup {[record |-> [flags |-> 0, extent |-> 20, data_length |-> DATA_SECTOR_SIZE],
           extent |-> DirExtent(<<<<>>>>)]}

DirInit ==
    /\ ImageIdle
    /\ DiscIdle
    /\ subject \in DirSubjects
    /\ outcome = [op |-> "init"]

SpecDir == DirInit /\ [][DirNext]_vars

\* the records of one block, up to its tail of zeros
RECURSIVE RecordsOfBlock(_)
RecordsOfBlock(data) ==
    IF Len(data) < 3 \/ data[1] = 0 THEN <<>>
    ELSE <<DirectoryRecord(data).data>> \o RecordsOfBlock(From(data, data[1] + data[2]))

\* the child records an extent records: those of every block, after the
\* "." and ".." entries
Recorded(extent) ==
    LET drop(all) == SubSeq(all, 3, Len(all))
    IN  drop(Concat([b \in 1..(Len(extent) \div DATA_SECTOR_SIZE) |->
                RecordsOfBlock(SubSeq(extent, (b - 1) * DATA_SECTOR_SIZE + 1,
                                      b * DATA_SECTOR_SIZE))]))

Range(s) == {s[i] : i \in 1..Len(s)}

\* C16: for every directory, also one whose extent spans several logical
\* blocks, directories and files are disjoint and their union is exactly
\* the set of child records recorded in the extent after "." and "..".
C16_NoChildLost ==
    (outcome.op \in {"directories", "files"} /\ is_directory(subject.record)) =>
        /\ IsOk(outcome.res)
        /\ IsOk(Directory_get_child_records(subject, TRUE))
        /\ IsOk(Directory_get_child_records(subject, FALSE))
        /\ outcome.res = Directory_get_child_records(subject, outcome.op = "directories")
        /\ Range(Directory_get_child_records(subject, TRUE).data)
             \cap Range(Directory_get_child_records(subject, FALSE).data) = {}
        /\ Range(Directory_get_child_records(subject, TRUE).data)
             \cup Range(Directory_get_child_records(subject, FALSE).data)
             = Range(Recorded(subject.extent))

(***************************************************************************)
(* The content of an ISO 9660 file, read through the image stack.          *)
(***************************************************************************)
\* ISO9660.read_extent; block_size is that of the image
ISO9660_read_extent(st, address, size) ==
    LET cut(out) ==
            IF ~IsOk(out.res) \/ (-size) % DATA_SECTOR_SIZE = 0 THEN out
            ELSE [out EXCEPT !.res =
                     Ok(SubSeq(out.res.data, 1,
                               Len(out.res.data) - ((-size) % DATA_SECTOR_SIZE)))]
    IN  cut(Read(Top, "read_blocks", st, Addr(address),
                 (size \div DATA_SECTOR_SIZE)
                     + (IF size % DATA_SECTOR_SIZE # 0 THEN 1 ELSE 0)))

\* a read_extent_as_raw that returns the data of the sectors, not the sectors
ISO9660_read_extent_as_raw_data(st, address, size) ==
    IF size % DATA_SECTOR_SIZE # 0
    THEN Out(Raise("ValueError: size must match whole blocks", -1), st, 0)
    ELSE Read(Top, "read_blocks_data", st, Addr(address), size \div DATA_SECTOR_SIZE)

\* ISO9660.read_extent_as_raw
ISO9660_read_extent_as_raw(st, address, size) ==
    IF size % DATA_SECTOR_SIZE # 0
    THEN Out(Raise("ValueError: size must match whole blocks", -1), st, 0)
    ELSE Read(Top, "read_blocks_raw", st, Addr(address), size \div DATA_SECTOR_SIZE)

\* struct.pack("<I", n)
PackLE32(n) == PackI(<<n \div 65536, n % 65536>>)

\* struct.pack("<4sI4s4sIHHH2sB7s4sI", b"RIFF", 36 + n, b"CDXA", b"fmt ", 16,
\*             0, 0, 0x1111, b"XA", 1, b"\x00" * 7, b"data", n)
RIFF_header(n) ==
    <<82, 73, 70, 70>> \o PackLE32(36 + n) \o <<67, 68, 88, 65>> \o <<102, 109, 116, 32>>
    \o PackLE32(16) \o <<0, 0>> \o <<0, 0>> \o <<17, 17>> \o <<88, 65>> \o <<1>>
    \o Zeros(7) \o <<100, 97, 116, 97>> \o PackLE32(n)

\* DirectoryRecord.get_content
DirectoryRecord_get_content(record, st, stream) ==
    IF is_directory(record) THEN Out(Raise("TypeError: not a file", -1), st, 0)
    ELSE IF stream # 0 THEN Out(Raise("ValueError: only stream 0 available", -1), st, 0)
    ELSE LET wrap(raw) ==
                 IF ~IsOk(raw.res) THEN raw
                 ELSE [raw EXCEPT !.res = Ok(RIFF_header(Len(raw.res.data))
                                             \o raw.res.data)]
             except(first) ==
                 IF IsOk(first.res) THEN first
                 ELSE wrap(ISO9660_read_extent_as_raw(first.st, record.extent,
                                                      record.data_length))
         IN  except(ISO9660_read_extent(st, record.extent, record.data_length))

\* File.get_content(stream)
File_get_content(stream) ==
    LET done(out) ==
        /\ subject # <<>>
        /\ fpos' = out.st.pos
        /\ current_sector' = out.st.cur
        /\ outcome' = [op |-> "get_content", stream |-> stream, res |-> out.res]
        /\ UNCHANGED <<base, f, stack, last, image, pc, partitions, probes, subject>>
    IN  done(DirectoryRecord_get_content(subject.record, St, stream))

get_content == \E stream \in {0, 1} : File_get_content(stream)

\* data lengths around the multiples of the block size
ContentLengths ==
    {0, 1, DATA_SECTOR_SIZE - 1, DATA_SECTOR_SIZE, DATA_SECTOR_SIZE + 1}
    \cup {n * DATA_SECTOR_SIZE : n \in 1..MaxCount}

ContentSubjects ==
    {[record |-> [flags |-> fl, extent |-> e, data_length |-> n]] :
        fl \in {0, 2}, e \in 0..(MaxSectors - 1), n \in ContentLengths}

\* files of Mode 2 Form 1 and Form 2 sectors (or blocks of a cooked image)
ContentInit ==
    /\ ImageInit({"iso", "raw"}, {4, 5}, {0}, {<<>>})
    /\ DiscIdle
    /\ subject \in ContentSubjects
    /\ outcome = [op |-> "init"]

SpecContent == ContentInit /\ [][get_content]_vars

\* ceil(data_length / block_size)
ExtentBlocks(record) ==
    (record.data_length + DATA_SECTOR_SIZE - 1) \div DATA_SECTOR_SIZE

\* what read_blocks returns for the one block k
OneBlock(k) == Read(Top, "read_blocks", St, Addr(k), 1).res

\* every block of the extent is readable by read_blocks, with a whole block
ExtentReadable(record) ==
    \A k \in record.extent..(record.extent + ExtentBlocks(record) - 1) :
        IsOk(OneBlock(k)) /\ Len(OneBlock(k).data) = DATA_SECTOR_SIZE

\* the blocks of the extent, in order
ExtentData(record) ==
    Concat([i \in 1..ExtentBlocks(record) |-> OneBlock(record.extent + i - 1).data])

\* C17: for a file whose extent blocks are all readable by read_blocks,
\* get_content(0) returns exactly data_length bytes, the first data_length
\* bytes of the ceil(data_length / block_size) blocks at the extent, for
\* every data_length >= 0 and on cooked and RAW images.
C17_ContentIsExtentPrefix ==
    (/\ outcome.op = "get_content" /\ outcome.stream = 0
     /\ ~is_directory(subject.record)
     /\ ExtentReadable(subject.record)) =>
        /\ IsOk(outcome.res)
        /\ Len(outcome.res.data) = subject.record.data_length
        /\ outcome.res.data
             = SubSeq(ExtentData(subject.record), 1, subject.record.data_length)

\* the read of the extent with read_blocks fails; a read at an explicit
\* address does not depend on the position of the image
ReadExtentFails(record) ==
    ~IsOk(ISO9660_read_extent(St, record.extent, record.data_length).res)

\* the raw sector k of a RAW image
RawSector(k) == SectorPalette[f.sectors[k + 1]]

\* the body of the file is N >= 1 Mode 2 Form 2 sectors of a RAW image and
\* its data_length is N blocks
Form2Body(record, N) ==
    /\ base = "raw" /\ Top = 0 /\ N >= 1
    /\ record.data_length = N * DATA_SECTOR_SIZE
    /\ record.extent + N <= Len(f.sectors)
    /\ \A k \in record.extent..(record.extent + N - 1) : f.sectors[k + 1] \in ValidMode2Form2

\* C18: on a RAW image, for a file whose body is N Mode 2 Form 2 sectors and
\* whose data_length is N blocks, get_content(0) falls back to the raw read
\* and returns a 44-byte RIFF/CDXA header followed by the raw bytes of the
\* sectors extent .. extent+N-1 in order; the RIFF size field is the raw
\* length + 36 and the data size field is the raw length.
C18_CdxaFallback ==
    \A N \in 1..MaxCount :
        (/\ outcome.op = "get_content" /\ outcome.stream = 0
         /\ ~is_directory(subject.record)
         /\ Form2Body(subject.record, N)) =>
            /\ ReadExtentFails(subject.record)
            /\ IsOk(outcome.res)
            /\ Len(outcome.res.data) = 44 + N * RAW_SECTOR_SIZE
            /\ SubSeq(outcome.res.data, 1, 4) = <<82, 73, 70, 70>>
            /\ SubSeq(outcome.res.data, 9, 12) = <<67, 68, 88, 65>>
            /\ SubSeq(outcome.res.data, 5, 8) = PackLE32(N * RAW_SECTOR_SIZE + 36)
            /\ SubSeq(outcome.res.data, 41, 44) = PackLE32(N * RAW_SECTOR_SIZE)
            /\ SubSeq(outcome.res.data, 45, Len(outcome.res.data))
                 = Concat([i \in 1..N |-> RawSector(subject.record.extent + i - 1)])

C18_Witness ==
    /\ outcome.op = "get_content" /\ outcome.stream = 0
    /\ Form2Body(subject.record, 2)
    /\ ReadExtentFails(subject.record)
    /\ IsOk(outcome.res)
    /\ Len(outcome.res.data) = 44 + 2 * RAW_SECTOR_SIZE

(***************************************************************************)
(* The Apple partition map and the HFS partitions.                         *)
(***************************************************************************)
\* the types of the subclasses of Partition
KnownTypes == {"Apple_partition_map", "Apple_HFS"}

\* C19: the Apple probe succeeds only if block 0 starts with 'ER' and
\* declares block size 512 and block 1 is a 'PM' entry; when that entry
\* announces count N, exactly N-1 further entries are read from the
\* consecutive blocks that follow it, each carries signature 'PM' and a
\* known type (or the probe fails), and the partitions exposed are those
\* N-1 entries in map order.
C19_AppleMapEntries ==
    \A i \in 1..Len(probes) :
        (probes[i].cls = "Volume" /\ probes[i].kind = "ok") =>
            /\ Len(image.apple) >= 2
            /\ image.apple[1].signature = "ER" /\ image.apple[1].block_size = 512
            /\ image.apple[2].signature = "PM"
            /\ Len(probes[i].data) = image.apple[2].partition_count - 1
            /\ \A k \in 1..Len(probes[i].data) :
                  /\ probes[i].data[k].at = 1 + k
                  /\ probes[i].data[k].parts = <<>>
                  /\ Len(image.apple) >= 2 + k
                  /\ image.apple[2 + k].signature = "PM"
                  /\ image.apple[2 + k].type \in KnownTypes

\* the objects of a list and those they hold
RECURSIVE Objects(_)
Objects(list) == UNION {{list[k]} \cup Objects(list[k].parts) : k \in 1..Len(list)}

\* the Master Directory Block of the HFS partition entry at block at
MasterDirectoryBlock(at) == image.apple[image.apple[at + 1].start_block + 3]

\* C20: every successfully constructed HFS partition has an allocation
\* block size that is strictly positive and a multiple of 512: a Master
\* Directory Block whose allocation block size is 0 or not a multiple of
\* 512 never yields a partition.
C20_AllocationBlockSize ==
    /\ \A o \in Objects(partitions) :
          o.cls = "HFSPartition" =>
              /\ MasterDirectoryBlock(o.at).allocation_block_size > 0
              /\ MasterDirectoryBlock(o.at).allocation_block_size % 512 = 0
    /\ \A i \in 1..Len(probes) :
          probes[i].cls = "Volume" =>
              \A o \in Objects(probes[i].data) \cup Objects(probes[i].partial) :
                  o.cls = "HFSPartition" =>
                      /\ MasterDirectoryBlock(o.at).allocation_block_size > 0
                      /\ MasterDirectoryBlock(o.at).allocation_block_size % 512 = 0

\* the probe met an HFS entry whose Master Directory Block has allocation
\* block size 0 and a matching catalog file size, and failed in BTree.__init__
C20_Witness ==
    /\ Len(probes) = 2
    /\ probes[2].cls = "Volume" /\ probes[2].err = "struct.error"
    /\ Len(image.apple) = 4
    /\ image.apple[2].type = "Apple_partition_map" /\ image.apple[2].start_block = 1
    /\ image.apple[3].signature = "PM" /\ image.apple[3].type = "Apple_HFS"
    /\ image.apple[4].signature = "BD" /\ image.apple[4].allocation_block_size = 0
    /\ partitions = <<>>

(***************************************************************************)
(* The B-tree of the HFS catalog file.  A node is the record of what its   *)
(* constructor keeps: an index node its (key, number) pairs, a leaf node   *)
(* its (key, record) pairs and its next link.  A key is its parent         *)
(* identifier, the only field the search key compares.  nodes[n + 1] is    *)
(* node n; node 0 is the header node.                                      *)
(***************************************************************************)
MaxRecords == 4
MaxParent == 3

\* CatalogSearchKeyByParentIdentifier.__gt__ and __eq__
Key_gt(key, other) == key > other
Key_eq(key, other) == key = other

\* an index search that moves to every child whose key is not above the key
RECURSIVE BTreeIndexNode_loop_le(_, _, _)
BTreeIndexNode_loop_le(childs, key, result) ==
    IF childs = <<>> THEN result
    ELSE IF Key_gt(key, Head(childs).key) \/ Key_eq(key, Head(childs).key)
         THEN BTreeIndexNode_loop_le(Tail(childs), key, Head(childs).number)
    ELSE result

\* the loop of BTreeIndexNode.search over self._childs[1:]
RECURSIVE BTreeIndexNode_loop(_, _, _)
BTreeIndexNode_loop(childs, key, result) ==
    IF childs = <<>> THEN result
    ELSE IF Key_gt(key, Head(childs).key)
         THEN BTreeIndexNode_loop(Tail(childs), key, Head(childs).number)
    ELSE result

\* BTreeIndexNode.search
BTreeIndexNode_search(node, key) ==
    IF ~(Key_gt(key, node.childs[1].key) \/ Key_eq(key, node.childs[1].key))
    THEN Raise("KeyError", -1)
    ELSE Ok(BTreeIndexNode_loop(Tail(node.childs), key, node.childs[1].number))

\* the loop of BTreeLeafNode.search
RECURSIVE BTreeLeafNode_loop(_, _, _)
BTreeLeafNode_loop(records, key, result) ==
    IF records = <<>> THEN result
    ELSE IF Key_gt(key, Head(records).key)
         THEN BTreeLeafNode_loop(Tail(records), key, result)
    ELSE IF Key_eq(key, Head(records).key)
         THEN BTreeLeafNode_loop(Tail(records), key, Append(result, Head(records).record))
    ELSE result

\* BTreeLeafNode.search
BTreeLeafNode_search(node, key) ==
    IF ~(Key_gt(key, node.records[1].key) \/ Key_eq(key, node.records[1].key))
    THEN Raise("KeyError", -1)
    ELSE Ok(BTreeLeafNode_loop(node.records, key, <<>>))

RECURSIVE BTree_leaves(_, _, _, _, _)
\* a search that never follows the next link of a leaf
BTree_leaves_first(nodes, n, key, result, path) ==
    LET extend(node_records) ==
            IF ~IsOk(node_records) THEN [res |-> result, path |-> path]
            ELSE [res |-> result \o node_records.data, path |-> path]
    IN  extend(BTreeLeafNode_search(nodes[n + 1], key))

\* the second loop of BTree.search, from leaf n on; path lists the nodes
\* visited
BTree_leaves(nodes, n, key, result, path) ==
    LET extend(node_records) ==
            IF ~IsOk(node_records) THEN [res |-> result, path |-> path]
            ELSE IF nodes[n + 1].next = 0
                 THEN [res |-> result \o node_records.data, path |-> path]
            ELSE BTree_leaves(nodes, nodes[n + 1].next, key, result \o node_records.data,
                              Append(path, nodes[n + 1].next))
    IN  extend(BTreeLeafNode_search(nodes[n + 1], key))

\* BTree.search, from the first loop at node n on
RECURSIVE BTree_search(_, _, _, _)
BTree_search(nodes, n, key, path) ==
    IF nodes[n + 1].type = "index"
    THEN LET descend(child) ==
                 IF ~IsOk(child) THEN [res |-> <<>>, path |-> path]
                 ELSE BTree_search(nodes, child.data, key, Append(path, child.data))
         IN  descend(BTreeIndexNode_search(nodes[n + 1], key))
    ELSE BTree_leaves(nodes, n, key, <<>>, path)

search ==
    \E key \in 0..(MaxParent + 1) :
        /\ subject # <<>>
        /\ outcome' = [op |-> "search", key |-> key,
                       out |-> BTree_search(subject.nodes, subject.root_node, key,
                                            <<subject.root_node>>)]
        /\ UNCHANGED <<base, f, fpos, current_sector, stack, last, image, pc, partitions,
                       probes, subject>>

RECURSIVE Sum(_)
Sum(s) == IF s = <<>> THEN 0 ELSE Head(s) + Sum(Tail(s))

\* the parent identifiers of the leaf records, in key order
SortedKeys ==
    {s \in SeqsUpTo(1..MaxParent, MaxRecords) :
        Len(s) >= 1 /\ \A i \in 1..(Len(s) - 1) : s[i] <= s[i + 1]}

\* the numbers of records of the leaves of a tree of n records
LeafSizes(n) == {z \in SeqsUpTo(1..n, n) : Sum(z) = n}

\* leaf j of the tree: node j, linked to node j + 1
LeafNode(keys, sizes, j) ==
    [type |-> "leaf", childs |-> <<>>,
     records |-> [i \in 1..sizes[j] |->
                    [key |-> keys[Sum(SubSeq(sizes, 1, j - 1)) + i],
                     record |-> Sum(SubSeq(sizes, 1, j - 1)) + i]],
     next |-> IF j = Len(sizes) THEN 0 ELSE j + 1]

\* the first key below node n
FirstKey(nodes, n) ==
    IF nodes[n + 1].type = "leaf" THEN nodes[n + 1].records[1].key
    ELSE nodes[n + 1].childs[1].key

\* an index node over the nodes from..to
IndexNode(nodes, from, to) ==
    [type |-> "index", records |-> <<>>, next |-> 0,
     childs |-> [i \in 1..(to - from + 1) |->
                    [key |-> FirstKey(nodes, from + i - 1), number |-> from + i - 1]]]

HeaderNode == [type |-> "header", childs |-> <<>>, records |-> <<>>, next |-> 0]

\* the header node and the leaves
Leaves(keys, sizes) ==
    <<HeaderNode>> \o [j \in 1..Len(sizes) |-> LeafNode(keys, sizes, j)]

\* a tree whose root is its only leaf, a tree of one index node over the
\* leaves, or a tree of index nodes over two leaves each below a root
Tree(keys, sizes, depth) ==
    LET L == Len(sizes)
        K == (L + 1) \div 2
        rooted(nodes) == [nodes |-> nodes, root_node |-> Len(nodes) - 1]
        top(nodes) == rooted(Append(nodes, IndexNode(nodes, L + 1, L + K)))
    IN  IF depth = 1 THEN rooted(Leaves(keys, sizes))
        ELSE IF depth = 2
             THEN rooted(Append(Leaves(keys, sizes), IndexNode(Leaves(keys, sizes), 1, L)))
        ELSE top(Leaves(keys, sizes)
                 \o [k \in 1..K |->
                        IndexNode(Leaves(keys, sizes), 2 * k - 1,
                                  IF 2 * k <= L THEN 2 * k ELSE L)])

TreeInit ==
    /\ ImageIdle
    /\ DiscIdle
    /\ \E keys \in SortedKeys :
          \E sizes \in LeafSizes(Len(keys)) :
             \E depth \in (IF Len(sizes) = 1 THEN {1, 2} ELSE {2, 3}) :
                subject = Tree(keys, sizes, depth)
    /\ outcome = [op |-> "init"]

SpecTree == TreeInit /\ [][search]_vars

\* the leaf records of a tree along the next links from leaf n, as (key,
\* record) pairs
RECURSIVE LeafOrder(_, _)
LeafOrder(nodes, n) ==
    nodes[n + 1].records
    \o (IF nodes[n + 1].next = 0 THEN <<>> ELSE LeafOrder(nodes, nodes[n + 1].next))

\* the records with parent identifier P, in leaf order; leaf 1 is the first
WithParent(nodes, P) ==
    LET pick(all) ==
            [i \in 1..Len(SelectSeq(all, LAMBDA r : r.key = P)) |->
                SelectSeq(all, LAMBDA r : r.key = P)[i].record]
    IN  pick(LeafOrder(nodes, 1))

\* C21: in a catalog B-tree whose leaves are sorted by parent id along the
\* next links and whose index keys are the first keys of their children,
\* search(P) returns exactly the leaf records with parent id P, each once
\* and in leaf order, and the empty list when there is none.
C21_SearchReturnsTheRun ==
    outcome.op = "search" =>
        outcome.out.res = WithParent(subject.nodes, outcome.key)

\* the run starts in the middle of a leaf, an index key has the parent id
\* searched, and the run spans three leaves
C21_Witness ==
    /\ outcome.op = "search"
    /\ Len(outcome.out.res) = 3
    /\ \E n \in 1..Len(subject.nodes) :
          /\ subject.nodes[n].type = "leaf"
          /\ Len(subject.nodes[n].records) = 2
          /\ subject.nodes[n].records[1].key < outcome.key
          /\ subject.nodes[n].records[2].key = outcome.key
          /\ Len(SelectSeq(outcome.out.path,
                           LAMBDA m : subject.nodes[m + 1].type = "leaf")) >= 3
    /\ \E n \in 1..Len(subject.nodes) :
          /\ subject.nodes[n].type = "index"
          /\ \E i \in 2..Len(subject.nodes[n].childs) :
                subject.nodes[n].childs[i].key = outcome.key

Max(S) == CHOOSE x \in S : \A y \in S : y <= x

\* the pairs (n, m) of an index node n and the node m visited after it
Descents ==
    {<<outcome.out.path[i], outcome.out.path[i + 1]>> :
        i \in {j \in 1..(Len(outcome.out.path) - 1) :
                  subject.nodes[outcome.out.path[j] + 1].type = "index"}}

\* the index node at which the descent ended, if it ended at one
EndedAtIndex ==
    subject.nodes[outcome.out.path[Len(outcome.out.path)] + 1].type = "index"

\* C26, as stated: the descent step at an index node chooses the last child
\* whose key is <= the search key, and the lookup is empty when the search
\* key is strictly less than the first child key.
C26_DescentLastNotAbove ==
    outcome.op = "search" =>
        /\ \A d \in Descents :
              LET childs == subject.nodes[d[1] + 1].childs
              IN  d[2] = childs[Max({i \in 1..Len(childs) :
                                        childs[i].key <= outcome.key})].number
        /\ EndedAtIndex => outcome.out.res = <<>>

\* C26, amended: the descent step at an index node chooses the last child
\* whose key is strictly less than the search key, or the first child when
\* there is none and the search key equals the first child key; the lookup
\* is empty when the search key is strictly less than the first child key.
C26_DescentLastBelow ==
    outcome.op = "search" =>
        /\ \A d \in Descents :
              LET childs == subject.nodes[d[1] + 1].childs
              IN  /\ childs[1].key <= outcome.key
                  /\ d[2] = childs[Max({1} \cup {i \in 1..Len(childs) :
                                                   childs[i].key < outcome.key})].number
        /\ EndedAtIndex =>
              /\ outcome.out.res = <<>>
              /\ outcome.key
                   < subject.nodes[outcome.out.path[Len(outcome.out.path)] + 1].childs[1].key
        /\ \A i \in 1..Len(outcome.out.path) :
              (subject.nodes[outcome.out.path[i] + 1].type = "index"
               /\ outcome.key < subject.nodes[outcome.out.path[i] + 1].childs[1].key)
                 => (i = Len(outcome.out.path) /\ outcome.out.res = <<>>)

\* an index node has a child other than the first whose key equals the
\* search key, and the descent took the child before it
C26_Witness ==
    /\ outcome.op = "search"
    /\ \E d \in Descents :
          \E i \in 2..Len(subject.nodes[d[1] + 1].childs) :
             /\ subject.nodes[d[1] + 1].childs[i].key = outcome.key
             /\ subject.nodes[d[1] + 1].childs[i - 1].key < outcome.key
             /\ d[2] = subject.nodes[d[1] + 1].childs[i - 1].number
    /\ outcome.out.res # <<>>

\* ---------------------------------------------------------------------------
\* The extractor (src/extract.py): extract walks the tree of a partition and
\* writes every stream of every file below a host directory.  A host name is
\* the sequence of its components; a component is <<name>>, or <<name, s>>
\* for the string name + "." + s of an extra stream.  The host decides which
\* names os.mkdir and open refuse (subject.host).
\* ---------------------------------------------------------------------------
MaxFiles == 2

\* File.streams of an ISO 9660 file and of an HFS file
File_streams(file) ==
    IF file.cls = "iso" THEN <<0>>
    ELSE (IF file.data_size > 0 THEN <<0>> ELSE <<>>)
         \o (IF file.resource_size > 0 THEN <<1>> ELSE <<>>)

\* File.get_content(stream); file.content[s] is what reading the extents of
\* stream s gives (the bytes, or the error of the image)
File_content(file, stream) ==
    IF file.cls = "iso"
    THEN IF stream # 0 THEN Raise("ValueError: only stream 0 available", stream)
         ELSE file.content[0]
    ELSE IF stream = 0
         THEN IF file.data_size > 0 THEN file.content[0] ELSE Ok(<<>>)
    ELSE IF stream = 1
         THEN IF file.resource_size > 0 THEN file.content[1] ELSE Ok(<<>>)
    ELSE Raise("ValueError: unknown stream", stream)

\* name + ".{}".format(stream)
extra_name(name, stream) == [name EXCEPT ![Len(name)] = Append(@, stream)]

\* the body of one try block: get the content, open the host file, write it;
\* any exception is printed and swallowed
extract_stream(res, name, host, env) ==
    IF res.kind # "ok" THEN [env EXCEPT !.log = Append(@, name)]
    ELSE IF name \in host.noopen THEN [env EXCEPT !.log = Append(@, name)]
    ELSE [env EXCEPT !.files = {e \in @ : e.name # name}
                                  \cup {[name |-> name, data |-> res.data]}]

\* for stream in f.streams[1:]
RECURSIVE extract_extra(_, _, _, _, _)
extract_extra(file, streams, name, host, env) ==
    IF streams = <<>> THEN env
    ELSE extract_extra(file, Tail(streams), name, host,
                       extract_stream(File_content(file, Head(streams)),
                                      extra_name(name, Head(streams)), host, env))

\* one round of "for f in directory.files": f.streams[0] of an empty list is
\* an IndexError inside the first try block
extract_file(file, name, host, env) ==
    extract_extra(file,
                  IF File_streams(file) = <<>> THEN <<>> ELSE Tail(File_streams(file)),
                  name, host,
                  extract_stream(IF File_streams(file) = <<>>
                                 THEN Raise("IndexError", 0)
                                 ELSE File_content(file, File_streams(file)[1]),
                                 name, host, env))

RECURSIVE extract_files(_, _, _, _)
extract_files(files, destination, host, env) ==
    IF files = <<>> THEN env
    ELSE extract_files(Tail(files), destination, host,
                       extract_file(Head(files), Append(destination, <<Head(files).name>>),
                                    host, env))

\* _extract(directory, destination): the result says whether an exception
\* left the function (os.mkdir is outside every try block)
RECURSIVE _extract(_, _, _, _)
RECURSIVE extract_directories(_, _, _, _)
extract_directories(directories, destination, host, env) ==
    IF directories = <<>> THEN [raised |-> FALSE, env |-> env]
    ELSE LET name == Append(destination, <<Head(directories).name>>)
             next(r) == IF r.raised THEN r
                        ELSE extract_directories(Tail(directories), destination, host, r.env)
         IN  IF name \in host.nomkdir
             THEN [raised |-> TRUE, env |-> env]
             ELSE next(_extract(Head(directories), name, host,
                                [env EXCEPT !.dirs = @ \cup {name}]))

_extract(directory, destination, host, env) ==
    LET files(r) == IF r.raised THEN r
                    ELSE [raised |-> FALSE,
                          env |-> extract_files(directory.files, destination, host, r.env)]
    IN  files(extract_directories(directory.directories, destination, host, env))

\* extract(partition, destination) into an empty destination directory
extract ==
    /\ subject # <<>>
    /\ outcome' = [op |-> "extract",
                   out |-> _extract(subject.root_directory, <<>>, subject.host,
                                    [files |-> {}, dirs |-> {}, log |-> <<>>])]
    /\ UNCHANGED <<base, f, fpos, current_sector, stack, last, image, pc, partitions,
                   probes, subject>>

\* the files a directory can hold: the content of a stream is its bytes or an
\* error of the image
StreamResults(data) == {Ok(<<data>>), Raise("ValueError", 0)}

FilePalette(cls, name) ==
    IF cls = "iso"
    THEN {[cls |-> "iso", name |-> name, content |-> (0 :> c)] : c \in StreamResults("data")}
    ELSE {[cls |-> "hfs", name |-> name, data_size |-> s[1], resource_size |-> s[2],
           content |-> (0 :> c[1]) @@ (1 :> c[2])] :
             s \in {<<1, 1>>, <<1, 0>>, <<0, 1>>, <<0, 0>>},
             c \in {<<Ok(<<"data">>), Ok(<<"rsrc">>)>>,
                    <<Raise("ValueError", 0), Ok(<<"rsrc">>)>>,
                    <<Ok(<<"data">>), Raise("ValueError", 0)>>}}

PlainFile(cls, name) ==
    IF cls = "iso"
    THEN [cls |-> "iso", name |-> name, content |-> (0 :> Ok(<<"data">>))]
    ELSE [cls |-> "hfs", name |-> name, data_size |-> 1, resource_size |-> 1,
          content |-> (0 :> Ok(<<"data">>)) @@ (1 :> Ok(<<"rsrc">>))]

FileNames == <<"f1", "f2", "f3">>

RECURSIVE FileLists(_, _)
FileLists(cls, n) ==
    IF n = 0 THEN {<<>>}
    ELSE FileLists(cls, n - 1)
         \cup {Append(fs, x) : fs \in {l \in FileLists(cls, n - 1) : Len(l) = n - 1},
                               x \in FilePalette(cls, FileNames[n])}

Dir(name, directories, files) ==
    [name |-> name, directories |-> directories, files |-> files]

DirLists(cls) ==
    LET d1 == Dir("d1", <<>>, <<PlainFile(cls, "g1")>>)
        d2 == Dir("d2", <<>>, <<PlainFile(cls, "g2")>>)
        d3 == Dir("d1", <<Dir("d3", <<>>, <<PlainFile(cls, "g3")>>)>>, <<PlainFile(cls, "g1")>>)
    IN  {<<>>, <<d1>>, <<d3>>, <<d1, d2>>, <<d3, d2>>}

Hosts ==
    [nomkdir : SUBSET {<< <<"d1">> >>, << <<"d2">> >>, << <<"d1">>, <<"d3">> >>},
     noopen : {{}, {<< <<"f1">> >>}, {<< <<"f1", 1>> >>}}]

ExtractInit ==
    /\ ImageIdle
    /\ DiscIdle
    /\ \E cls \in {"iso", "hfs"} :
          \E files \in FileLists(cls, MaxFiles) :
             \E directories \in DirLists(cls) :
                \E host \in Hosts :
                   subject = [root_directory |-> Dir("", directories, files), host |-> host]
    /\ outcome = [op |-> "init"]

SpecExtract == ExtractInit /\ [][extract]_vars

\* the files of a tree, each with the host directory it belongs to
RECURSIVE FilesBelow(_, _)
FilesBelow(directory, destination) ==
    {[file |-> directory.files[i], at |-> destination] : i \in DOMAIN directory.files}
    \cup UNION {FilesBelow(directory.directories[i],
                           Append(destination, <<directory.directories[i].name>>)) :
                  i \in DOMAIN directory.directories}

\* C22: every File exposed by a partition has a non-empty streams sequence;
\* an ISO 9660 file has streams [0]; an HFS file has stream 0 in streams iff
\* its data fork size is > 0 and stream 1 iff its resource fork size is > 0.
C22_StreamsNonEmpty ==
    outcome.op = "extract" =>
        \A x \in FilesBelow(subject.root_directory, <<>>) :
            /\ File_streams(x.file) # <<>>
            /\ x.file.cls = "iso" => File_streams(x.file) = <<0>>
            /\ x.file.cls = "hfs" =>
                  /\ (0 \in Range(File_streams(x.file))) <=> (x.file.data_size > 0)
                  /\ (1 \in Range(File_streams(x.file))) <=> (x.file.resource_size > 0)

\* the part of C22 about which streams are listed, without the "non-empty" part
C22_StreamsFollowForks ==
    outcome.op = "extract" =>
        \A x \in FilesBelow(subject.root_directory, <<>>) :
            /\ x.file.cls = "iso" => File_streams(x.file) = <<0>>
            /\ x.file.cls = "hfs" =>
                  /\ (0 \in Range(File_streams(x.file))) <=> (x.file.data_size > 0)
                  /\ (1 \in Range(File_streams(x.file))) <=> (x.file.resource_size > 0)

\* the host directories above and including a name can all be created
Creatable(destination) ==
    \A n \in 1..Len(destination) : SubSeq(destination, 1, n) \notin subject.host.nomkdir

\* the host name the extractor gives to the stream at index i of f.streams
StreamName(x, i) ==
    IF i = 1 THEN Append(x.at, <<x.file.name>>)
    ELSE extra_name(Append(x.at, <<x.file.name>>), File_streams(x.file)[i])

\* C23: a failure to read or write one stream is logged and does not stop the
\* extraction of the other streams, of the remaining files or of other
\* directories; a failure to create a host directory stops the extraction of
\* that directory's subtree only: every stream that can be read and written
\* and whose host directory can be created is written.
C23_FailuresAreLocal ==
    outcome.op = "extract" =>
        \A x \in FilesBelow(subject.root_directory, <<>>) :
            Creatable(x.at) =>
                \A i \in DOMAIN File_streams(x.file) :
                    (/\ File_content(x.file, File_streams(x.file)[i]).kind = "ok"
                     /\ StreamName(x, i) \notin subject.host.noopen)
                    => [name |-> StreamName(x, i),
                        data |-> File_content(x.file, File_streams(x.file)[i]).data]
                           \in outcome.out.env.files

\* the first half of C23 alone: when every host directory can be created, a
\* stream that fails does not stop the others
C23_StreamFailuresAreLocal ==
    (outcome.op = "extract" /\ subject.host.nomkdir = {}) => C23_FailuresAreLocal

\* C24: the content written to <name> is that of stream 0 and of no other
\* stream, and every stream s # 0 of the file's streams is written to
\* <name>.<s>, also for an HFS file that has only a resource fork.
C24_PrimaryIsStreamZero ==
    (outcome.op = "extract" /\ ~outcome.out.raised) =>
        \A x \in FilesBelow(subject.root_directory, <<>>) :
            /\ \A e \in outcome.out.env.files :
                  e.name = Append(x.at, <<x.file.name>>)
                     => File_content(x.file, 0) = Ok(e.data)
            /\ \A i \in DOMAIN File_streams(x.file) :
                  LET s == File_streams(x.file)[i]
                      name == extra_name(Append(x.at, <<x.file.name>>), s)
                  IN  (s # 0 /\ File_content(x.file, s).kind = "ok"
                       /\ name \notin subject.host.noopen)
                      => [name |-> name, data |-> File_content(x.file, s).data]
                            \in outcome.out.env.files

\* ---------------------------------------------------------------------------
\* ExtentGroup (apple.py): the three (start, size) extents of a fork or of a
\* special file.  A read is described by the allocation blocks it asks the
\* partition for, in order.
\* ---------------------------------------------------------------------------
MaxExtent == 2

\* HFSPartition.read_extent_blocks(address, count): the allocation blocks
\* address .. address + count - 1
read_extent_blocks(address, count) == [k \in 1..count |-> address + k - 1]

\* the loop of ExtentGroup.read_blocks from extent i on
RECURSIVE ExtentGroup_loop(_, _, _, _, _)
ExtentGroup_loop(extents, i, address, count, result) ==
    IF i > Len(extents) THEN Raise("ValueError: read past extent group end", 0)
    ELSE LET start == extents[i][1]
             size == extents[i][2]
             chunk_size == IF address + count <= size THEN count ELSE size - address
             left == IF address < size THEN count - chunk_size ELSE count
             read == IF address < size
                     THEN result \o read_extent_blocks(start + address, chunk_size)
                     ELSE result
         IN  IF left = 0 THEN Ok(read)
             ELSE ExtentGroup_loop(extents, i + 1, address - size, left, read)

ExtentGroup_read_blocks(extents, address, count) ==
    ExtentGroup_loop(extents, 1, address, count, <<>>)

\* ExtentGroup.size
ExtentGroup_size(extents) == Sum([i \in DOMAIN extents |-> extents[i][2]])

extent_read_blocks ==
    \E address \in 0..(3 * MaxExtent) :
       \E count \in 0..(3 * MaxExtent + 1) :
          /\ subject # <<>>
          /\ outcome' = [op |-> "ExtentGroup.read_blocks", address |-> address,
                         count |-> count,
                         res |-> ExtentGroup_read_blocks(subject, address, count)]
          /\ UNCHANGED <<base, f, fpos, current_sector, stack, last, image, pc,
                         partitions, probes, subject>>

\* extent groups with far apart extents of 0 .. MaxExtent allocation blocks
ExtentGroups ==
    {<<<<10, s[1]>>, <<20, s[2]>>, <<30, s[3]>>>> : s \in [1..3 -> 0..MaxExtent]}

ExtentInit ==
    /\ ImageIdle
    /\ DiscIdle
    /\ subject \in ExtentGroups
    /\ outcome = [op |-> "init"]

SpecExtents == ExtentInit /\ [][extent_read_blocks]_vars

\* the allocation block at logical position q of a group
RECURSIVE LogicalBlock(_, _)
LogicalBlock(extents, q) ==
    IF q < Head(extents)[2] THEN Head(extents)[1] + q
    ELSE LogicalBlock(Tail(extents), q - Head(extents)[2])

\* C25: ExtentGroup.read_blocks(p, n) with p + n <= size returns the
\* allocation blocks at the logical positions p .. p+n-1 of the group in
\* order, also when the range starts at p > 0 or spans two or three extents;
\* with p + n > size it raises the read-past-end error.
C25_ReadsLogicalRange ==
    outcome.op = "ExtentGroup.read_blocks" =>
        IF outcome.address + outcome.count <= ExtentGroup_size(subject)
        THEN outcome.res = Ok([k \in 1..outcome.count |->
                                  LogicalBlock(subject, outcome.address + k - 1)])
        ELSE outcome.res.kind = "error"

\* the extents that hold at least one block of the range p .. p+n-1
Touched(extents, p, n) ==
    {i \in DOMAIN extents :
        \E q \in p..(p + n - 1) :
            /\ Sum([j \in 1..(i - 1) |-> extents[j][2]]) <= q
            /\ q < Sum([j \in 1..i |-> extents[j][2]])}

\* the part of C25 that the code does: ranges that lie in one extent
C25_ReadsWithinOneExtent ==
    (/\ outcome.op = "ExtentGroup.read_blocks"
     /\ outcome.address + outcome.count <= ExtentGroup_size(subject)
     /\ Cardinality(Touched(subject, outcome.address, outcome.count)) <= 1)
    => C25_ReadsLogicalRange

\* ---------------------------------------------------------------------------
\* DDRescueImage.__init__ (image.py): the parser of a ddrescue map file.  A
\* line is a comment, a blank line, or three fields; a number field is its
\* prefix ("0x", "0" or none) and its digits.
\* ---------------------------------------------------------------------------
MaxLines == 2

\* int(text, radix) of a sequence of digits
RECURSIVE int(_, _)
int(digits, radix) ==
    IF digits = <<>> THEN 0
    ELSE int(SubSeq(digits, 1, Len(digits) - 1), radix) * radix + digits[Len(digits)]

_parse_c_number(text) ==
    IF text.prefix = "0x" THEN int(text.digits, 16)
    ELSE IF text.prefix = "0" THEN int(<<0>> \o text.digits, 8)
    ELSE int(text.digits, 10)

STATUS == {"?", "*", "/", "-", "F", "G", "+"}
BLOCK_STATUS == {"?", "*", "/", "-", "+"}
BLOCK_STATUS_FINISHED == "+"

\* the second loop of __init__ from line index on (index counts from 1)
RECURSIVE DDRescueImage_blocks(_, _, _)
DDRescueImage_blocks(lines, index, bad_areas) ==
    IF index > Len(lines) THEN Ok(bad_areas)
    ELSE IF lines[index].kind = "blank" THEN Raise("IndexError", index)
    ELSE IF lines[index].kind = "comment"
         THEN DDRescueImage_blocks(lines, index + 1, bad_areas)
    ELSE IF lines[index].fields[3] \notin BLOCK_STATUS
         THEN Raise("Exception: unknown block status", index)
    ELSE DDRescueImage_blocks(lines, index + 1,
            IF lines[index].fields[3] # BLOCK_STATUS_FINISHED
            THEN Append(bad_areas,
                        <<_parse_c_number(lines[index].fields[1]),
                          _parse_c_number(lines[index].fields[1])
                             + _parse_c_number(lines[index].fields[2])>>)
            ELSE bad_areas)

\* the first loop of __init__ and what follows it
RECURSIVE DDRescueImage_status(_, _)
DDRescueImage_status(lines, index) ==
    IF index > Len(lines) THEN Raise("UnboundLocalError", index)
    ELSE IF lines[index].kind = "blank" THEN Raise("IndexError", index)
    ELSE IF lines[index].kind = "comment" THEN DDRescueImage_status(lines, index + 1)
    ELSE IF lines[index].fields[2] \notin STATUS THEN Raise("Exception: unknown status", index)
    ELSE DDRescueImage_blocks(lines, index + 1, <<>>)

DDRescueImage_init ==
    /\ subject # <<>>
    /\ outcome' = [op |-> "DDRescueImage", res |-> DDRescueImage_status(subject, 1)]
    /\ UNCHANGED <<base, f, fpos, current_sector, stack, last, image, pc, partitions,
                   probes, subject>>

Number(prefix, digits) == [prefix |-> prefix, digits |-> digits]
Fields(a, b, c) == [kind |-> "fields", fields |-> <<a, b, c>>]

\* 0x10, 010 and 16 as positions; 0x2 and 8 as sizes
BlockLines ==
    {Fields(start, size, status) :
        start \in {Number("0x", <<1, 0>>), Number("0", <<1, 0>>), Number("", <<1, 6>>)},
        size \in {Number("0x", <<2>>), Number("", <<8>>)},
        status \in STATUS \cup {"x"}}

StatusLines ==
    {Fields(Number("0x", <<0>>), status, Number("", <<1>>)) : status \in {"+", "?", "x"}}

RECURSIVE LineLists(_)
LineLists(n) ==
    IF n = 0 THEN {<<>>}
    ELSE LineLists(n - 1)
         \cup {Append(ls, l) : ls \in {x \in LineLists(n - 1) : Len(x) = n - 1},
                               l \in BlockLines \cup {[kind |-> "comment"]}}

MapFiles ==
    {head \o <<status>> \o blocks :
        head \in {<<>>, <<[kind |-> "comment"]>>, <<[kind |-> "blank"]>>},
        status \in StatusLines,
        blocks \in LineLists(MaxLines) \cup {<<[kind |-> "blank"]>>}}
    \cup {<<[kind |-> "comment"]>>}

MapInit ==
    /\ ImageIdle
    /\ DiscIdle
    /\ subject \in MapFiles
    /\ outcome = [op |-> "init"]

SpecMap == MapInit /\ [][DDRescueImage_init]_vars

\* the block lines of a map: the lines with fields after the first such line
BlockLinesOf(lines) ==
    LET fields == SelectSeq(lines, LAMBDA l : l.kind = "fields")
    IN  SubSeq(fields, 2, Len(fields))

\* a well-formed map: no blank line, a status line with a known status
WellFormed(lines) ==
    /\ \A i \in DOMAIN lines : lines[i].kind # "blank"
    /\ \E i \in DOMAIN lines : lines[i].kind = "fields"
    /\ SelectSeq(lines, LAMBDA l : l.kind = "fields")[1].fields[2] \in STATUS

RECURSIVE Unreadable(_)
Unreadable(blocks) ==
    IF blocks = <<>> THEN <<>>
    ELSE (IF Head(blocks).fields[3] # "+"
          THEN <<<<_parse_c_number(Head(blocks).fields[1]),
                   _parse_c_number(Head(blocks).fields[1])
                      + _parse_c_number(Head(blocks).fields[2])>>>>
          ELSE <<>>)
         \o Unreadable(Tail(blocks))

\* C27: when a ddrescue map is loaded, every block line whose status is one
\* of ? * / - F G adds the byte range [start, start+size) to the unreadable
\* ranges and construction succeeds; a line with status + adds no range.
C27_BlockStatuses ==
    (/\ outcome.op = "DDRescueImage"
     /\ WellFormed(subject)
     /\ \A i \in DOMAIN BlockLinesOf(subject) :
           BlockLinesOf(subject)[i].fields[3] \in {"?", "*", "/", "-", "F", "G", "+"})
    => outcome.res = Ok(Unreadable(BlockLinesOf(subject)))

\* the statement of C27 for the block statuses ? * / - and +
C27_KnownBlockStatuses ==
    (/\ outcome.op = "DDRescueImage"
     /\ WellFormed(subject)
     /\ \A i \in DOMAIN BlockLinesOf(subject) :
           BlockLinesOf(subject)[i].fields[3] \in {"?", "*", "/", "-", "+"})
    => outcome.res = Ok(Unreadable(BlockLinesOf(subject)))

\* ---------------------------------------------------------------------------
\* Termination of Disc.__init__: the two probes run one after the other and
\* nothing else is scheduled, so a probe that can take its step does.
\* ---------------------------------------------------------------------------
MaxLiveBlocks == 2

\* images of at most MaxLiveBlocks 512-byte blocks, the empty image included,
\* with or without ISO 9660 descriptors
LiveInit ==
    /\ ImageIdle
    /\ \E kind \in {"iso", "raw"} :
          \E vds \in {<<>>, GoodISO}, apple \in SeqsUpTo(ApplePalette, MaxLiveBlocks) :
             image = [kind |-> kind, vds |-> vds, apple |-> apple]
    /\ pc = "iso"
    /\ partitions = <<>>
    /\ probes = <<>>
    /\ FsIdle

SpecLive == LiveInit /\ [][DiscNext]_vars /\ WF_vars(DiscNext)

\* C28: Disc construction terminates for every finite image file (cooked ISO
\* or RAW) and every base offset: both probes complete or fail after finitely
\* many block reads, also when a probe addresses blocks at or past the end of
\* the image.
C28_ConstructionTerminates == <>(pc = "done")

\* C28 on RAW images, where a read past the end raises
C28_RawConstructionTerminates == (image.kind = "raw") => <>(pc = "done")

(***************************************************************************)
(* C30: on a RawCDImage, in every state between operations (right after    *)
(* construction, after a successful read and after a failed read) the      *)
(* position of the byte source is current_block * 2352, so that a read     *)
(* with no explicit address returns the sector whose index is              *)
(* current_block.                                                          *)
(***************************************************************************)
C30_PositionIsCurrentBlock ==
    (base = "raw" /\ Top = 0) => fpos = current_sector * RAW_SECTOR_SIZE

\* C30 restricted to the states after a successful read
C30_PositionAfterSuccess ==
    (base = "raw" /\ Top = 0 /\ last.op \in ReadOps /\ IsOk(last.res))
    => fpos = current_sector * RAW_SECTOR_SIZE

\* ---------------------------------------------------------------------------
\* get_content on RAW images with damaged sectors: Mode 1 sectors with a wrong
\* EDC, Mode 0 sectors, Mode 2 Form 2 sectors and sectors with a wrong sync
\* pattern, with and without a bad-sector map over the image.
\* ---------------------------------------------------------------------------
DamagedInit ==
    /\ ImageInit({"raw"}, {2, 3, 5, 6}, {0}, {<<>>, <<ImageWithBadMap({1})>>})
    /\ DiscIdle
    /\ subject \in {[record |-> [flags |-> 0, extent |-> e,
                                 data_length |-> n * DATA_SECTOR_SIZE]] :
                       e \in 0..(MaxSectors - 1), n \in 1..MaxCount}
    /\ outcome = [op |-> "init"]

SpecDamaged == DamagedInit /\ [][get_content]_vars

\* the error of the read of the extent with read_blocks
ReadExtentError(record) ==
    ISO9660_read_extent(St, record.extent, record.data_length).res.err

\* C29: get_content(0) of an ISO 9660 file returns the RIFF/CDXA-wrapped raw
\* stream only when the strict read failed because the body contains Mode 2
\* Form 2 sectors; when the strict read fails for any other reason (bad sync,
\* EDC or ECC mismatch, invalid mode, bad-block overlay) get_content fails.
C29_FallbackOnlyForForm2 ==
    (/\ outcome.op = "get_content" /\ outcome.stream = 0
     /\ ReadExtentFails(subject.record)
     /\ ReadExtentError(subject.record) # "IOError: mode 2 form 1 sector found")
    => ~IsOk(outcome.res)

\* the part of C29 that the code does: a bad block of the overlay, and a
\* sector missing from the image, make get_content fail
C29_FailsOnBadBlockOrShortRead ==
    (/\ outcome.op = "get_content" /\ outcome.stream = 0
     /\ ReadExtentFails(subject.record)
     /\ ReadExtentError(subject.record)
           \in {"IOError: bad block", "IOError: can't read entire sector"})
    => ~IsOk(outcome.res)

====
